---- MODULE Spec2Model ----
(***************************************************************************)
(* A model of the imposter game server: the domain aggregate (Game, Round, *)
(* Player, Phase) and the GameSession that wraps one Game with a lock, the *)
(* role-reveal timer, the voting countdown goroutine and the bounded event *)
(* queue.                                                                  *)
(*                                                                         *)
(* Every Game method is an operator from a game value to a result          *)
(* [err, game]; err = Ok means the method returned nil.  Each Session      *)
(* method holds s.mu for its whole body, so it is one atomic action.  The  *)
(* goroutines (role-reveal callback, votingCountdown, eventLoop) take one  *)
(* action per access to shared memory.                                     *)
(*                                                                         *)
(* Left out of the state: nicknames, timestamps and the text of submitted  *)
(* words beyond being empty or not after trimming.  Round.Votes is kept as *)
(* a set of votes: the code appends to a slice, whose order is read only   *)
(* to list the voters' nicknames.                                          *)
(*                                                                         *)
(* The contents of the event queue are part of the state in the            *)
(* specifications that start from InitTraced; the others keep the number   *)
(* of waiting events only.  Close is modelled statement by statement, as   *)
(* it takes no lock.                                                       *)
(*                                                                         *)
(* The specifications share the actions.  Spec is one session through its  *)
(* first round with every operation of a round and the countdown.          *)
(* SpecRounds runs rounds one after the other, each ended by its           *)
(* countdown.  SpecLobby has players joining and leaving, SpecJoin a lobby *)
(* that fills up, SpecConnect connections that drop and come back.         *)
(* SpecQueue and SpecOverflow have the event queue filling up, SpecEvents  *)
(* a round with the events it queues and their delivery, SpecClose a       *)
(* session that is closed by two callers.  SpecHub is the registry of the  *)
(* GameHub.  SpecLeave has players removed during a round, SpecStale rounds*)
(* whose countdowns outlive them, SpecSnapshot calls of GetGameState in    *)
(* every phase, SpecVotes votes of anybody for anybody.  SpecDeliver has    *)
(* clients that connect while events are delivered into their send         *)
(* buffers, SpecDelete a hub that deletes and sweeps sessions while a      *)
(* round goes on in the first of them.  SpecLocks and SpecStall are the    *)
(* calls of hub, session and client as sequences of lock and channel       *)
(* operations.  SpecReveal, SpecCountdown and SpecStall are the            *)
(* specifications with fairness: the role-reveal callback, the countdown   *)
(* goroutine and the callers of the session are scheduled in the end.      *)
(***************************************************************************)
EXTENDS Naturals, Sequences, FiniteSets, TLC

VARIABLES
    game,           \* GameSession.game: the domain.Game value
    countdownDone,  \* GameSession.countdownDone: 0 is nil, n the channel made for round n
    closedChans,    \* the countdownDone channels that have been closed
    tasks,          \* the votingCountdown goroutines, in the order they were started
    reveals,        \* number of role-reveal callbacks that are still asleep
    queued,         \* number of events waiting in GameSession.events
    stats,          \* per round: how often each transition ran and each event was queued
    removals,       \* how many RemovePlayer calls took the host from among others, how many did not
    events,         \* GameSession.events: the events waiting, and the one broadcastEvent got last
    clients,        \* GameSession.clients, and the client handles made so far
    closing,        \* GameSession.done, the callers of Close and the panics of close()
    hub,            \* GameHub.sessions: the session registered under each room code
    sync            \* the mutexes of hub, session and client, and the calls in progress

vars == <<game, countdownDone, closedChans, tasks, reveals, queued, stats, removals,
          events, clients, closing, hub, sync>>

----------------------------------------------------------------------------
(* Program constants *)

MinPlayers == 4
MaxPlayers == 10
VotingSeconds == 20
QueueCap == 100
SendBufferSize == 256
MaxAttempts == 10

(* Bounds of the model: rounds per session in SpecRounds, successful       *)
(* RemovePlayer calls per session in SpecLobby, connections per session in *)
(* SpecClose, events waiting when a call comes in SpecEvents, sessions the  *)
(* hub creates in SpecHub and in SpecDelete                                *)

MaxRounds == 2
MaxRemovals == 3
MaxClients == 2
MaxWaiting == 3
MaxSessions == 4
MaxCreated == 2

\* The ids clients use.  "zz" is a client that is connected but never joins.
PlayerIds == {"p1", "p2", "p3", "p4"}
AnyIds == PlayerIds \cup {"zz"}

\* The ids of a lobby that fills up: one client more than the game takes
JoinIds == PlayerIds \cup {"p5", "p6", "p7", "p8", "p9", "q0", "q1"}

\* Words a client may send: sequences of characters, " " being white space.
InputWords == {<<>>, <<" ">>, <<" ", "a", " ">>}

SecretWords == {"neon"}

----------------------------------------------------------------------------
(* domain: errors, roles, phases *)

Ok == "nil"
ErrGameFull == "game is full"
ErrGameAlreadyStarted == "game already started"
ErrNotEnoughPlayers == "not enough players to start"
ErrNotYourTurn == "not your turn to submit"
ErrAlreadySubmitted == "already submitted this round"
ErrAlreadyVoted == "already voted this round"
ErrInvalidPhase == "invalid action for current phase"
ErrPlayerNotFound == "player not found"
ErrNotHost == "only host can perform this action"
ErrCannotVoteSelf == "cannot vote for yourself"
ErrInvalidTransition == "invalid phase transition"
ErrEmptyWord == "word cannot be empty"
ErrInvalidTargetID == "invalid vote target"

RoleImposter == "IMPOSTER"
RoleVilek == "VILEK"
NoRole == ""

PhaseLobby == "LOBBY"
PhaseRoleAssignment == "ROLE_ASSIGNMENT"
PhaseSubmission == "SUBMISSION"
PhaseVoting == "VOTING"
PhaseResults == "RESULTS"

\* Phase.CanTransitionTo: the table of valid transitions
CanTransitionTo(p, target) ==
    \/ p = PhaseLobby /\ target = PhaseRoleAssignment
    \/ p = PhaseRoleAssignment /\ target = PhaseSubmission
    \/ p = PhaseSubmission /\ target = PhaseVoting
    \/ p = PhaseVoting /\ target = PhaseResults
    \/ p = PhaseResults /\ target \in {PhaseRoleAssignment, PhaseLobby}

StatusConnected == "CONNECTED"
StatusDisconnected == "DISCONNECTED"

----------------------------------------------------------------------------
(* helpers *)

\* All orders in which a Go map with key set S can be iterated, and all
\* outcomes of rand.Shuffle on a slice holding S.
Perms(S) ==
    {f \in [1..Cardinality(S) -> S] : \A i, j \in 1..Cardinality(S) : i # j => f[i] # f[j]}

Range(s) == {s[i] : i \in 1..Len(s)}

\* The elements of seq that are in S, in the order of seq
RECURSIVE Restrict(_, _)
Restrict(seq, S) ==
    IF seq = << >> THEN << >>
    ELSE IF Head(seq) \in S THEN <<Head(seq)>> \o Restrict(Tail(seq), S)
    ELSE Restrict(Tail(seq), S)

IsSpace(c) == c = " "

RECURSIVE TrimLeft(_)
TrimLeft(w) == IF w # <<>> /\ IsSpace(Head(w)) THEN TrimLeft(Tail(w)) ELSE w

RECURSIVE TrimRight(_)
TrimRight(w) ==
    IF w # <<>> /\ IsSpace(w[Len(w)]) THEN TrimRight(SubSeq(w, 1, Len(w) - 1)) ELSE w

\* strings.TrimSpace
TrimSpace(w) == TrimRight(TrimLeft(w))

----------------------------------------------------------------------------
(* domain: Player *)

NewPlayer ==
    [role |-> NoRole, hasVoted |-> FALSE, hasSubmitted |-> FALSE, status |-> StatusConnected]

ResetForNewRoundKeepsFlags(p) == [p EXCEPT !.role = NoRole]

ResetForNewRound(p) ==
    [p EXCEPT !.role = NoRole, !.hasVoted = FALSE, !.hasSubmitted = FALSE]

----------------------------------------------------------------------------
(* domain: Round *)

\* NewRound, given the outcome of rand.Shuffle (order) and the id that
\* playerIDs[rand.Intn(len(playerIDs))] picked (imposterID).
NewRound(number, secretWord, order, imposterID) ==
    [number |-> number,
     secretWord |-> secretWord,
     imposterId |-> imposterID,
     submissions |-> <<>>,
     votes |-> {},
     currentPlayerIdx |-> 0,
     playerOrder |-> order,
     winner |-> NoRole,
     ended |-> FALSE]

GetCurrentPlayerID(r) ==
    IF r.currentPlayerIdx >= Len(r.playerOrder) THEN "" ELSE r.playerOrder[r.currentPlayerIdx + 1]

IsPlayerTurn(r, playerID) == GetCurrentPlayerID(r) = playerID

NewSubmissionZeroBased(playerID, word, order) ==
    [playerId |-> playerID, word |-> word, order |-> order - 1]

NewSubmission(playerID, word, order) == [playerId |-> playerID, word |-> word, order |-> order]

\* AddSubmission without the turn test
AddSubmissionAnyTurn(r, playerID, word) ==
    [err |-> Ok,
     round |-> [r EXCEPT
         !.submissions = Append(@, NewSubmission(playerID, word, Len(r.submissions) + 1)),
         !.currentPlayerIdx = @ + 1]]

AddSubmission(r, playerID, word) ==
    IF ~IsPlayerTurn(r, playerID)
    THEN [err |-> ErrNotYourTurn, round |-> r]
    ELSE [err |-> Ok,
          round |-> [r EXCEPT
              !.submissions = Append(@, NewSubmission(playerID, word, Len(r.submissions) + 1)),
              !.currentPlayerIdx = @ + 1]]

\* AllSubmitted one submission too early
RoundAllSubmittedEarly(r) == r.currentPlayerIdx + 1 >= Len(r.playerOrder)

RoundAllSubmitted(r) == r.currentPlayerIdx >= Len(r.playerOrder)

NewVote(voterID, targetID) == [voterId |-> voterID, targetId |-> targetID]

AddVote(r, voterID, targetID) ==
    IF \E v \in r.votes : v.voterId = voterID
    THEN [err |-> ErrAlreadyVoted, round |-> r]
    ELSE [err |-> Ok, round |-> [r EXCEPT !.votes = @ \cup {NewVote(voterID, targetID)}]]

GetVotedCount(r) == Cardinality(r.votes)

RoundAllVoted(r, totalPlayers) == GetVotedCount(r) >= totalPlayers

\* voteCounts[playerID] after the first loop of CalculateResults
VoteCount(r, playerID) == Cardinality({v \in r.votes : v.targetId = playerID})

\* The second loop of CalculateResults over the first n players of iter, the
\* order in which the players map is iterated: the running maximum.
RECURSIVE MaxVoted(_, _, _)
MaxVoted(r, iter, n) ==
    IF n = 0
    THEN [maxVotes |-> 0, maxVotedPlayerID |-> ""]
    ELSE LET prev == MaxVoted(r, iter, n - 1)
             count == VoteCount(r, iter[n])
         IN  IF count > prev.maxVotes
             THEN [maxVotes |-> count, maxVotedPlayerID |-> iter[n]]
             ELSE prev

DetermineWinner(maxVotedPlayerID, imposterID) ==
    IF maxVotedPlayerID = imposterID THEN RoleVilek ELSE RoleImposter

VoteResultOf(r, playerID) ==
    [playerId |-> playerID, voteCount |-> VoteCount(r, playerID),
     isImposter |-> playerID = r.imposterId]

\* Round.CalculateResults(players), iterating the players map in order iter
CalculateResults(r, iter) ==
    LET winner == DetermineWinner(MaxVoted(r, iter, Len(iter)).maxVotedPlayerID, r.imposterId)
    IN  [results |-> [i \in 1..Len(iter) |-> VoteResultOf(r, iter[i])],
         winner |-> winner,
         round |-> [r EXCEPT !.winner = winner, !.ended = TRUE]]

----------------------------------------------------------------------------
(* domain: Game *)

\* Rounds are shared objects: g.rounds is the heap of Round objects in the
\* order they were created, g.currentRound and the elements of
\* g.roundHistory are references into it (0 is nil).
NewGame ==
    [hostId |-> "",
     players |-> [q \in {} |-> NewPlayer],
     rounds |-> << >>,
     currentRound |-> 0,
     roundHistory |-> << >>,
     phase |-> PhaseLobby]

PlayerSet(g) == DOMAIN g.players

NumPlayers(g) == Cardinality(PlayerSet(g))

HasRound(g) == g.currentRound # 0

CurrentRound(g) == g.rounds[g.currentRound]

SetCurrentRound(g, r) == [g EXCEPT !.rounds[g.currentRound] = r]

\* "First player becomes the host"
HostAfterAdd(hostID, playerID) == IF hostID = "" THEN playerID ELSE hostID

\* AddPlayer with the test for a full game off by one
GameAddPlayerOneMore(g, playerID) ==
    IF g.phase # PhaseLobby THEN [err |-> ErrGameAlreadyStarted, game |-> g]
    ELSE IF NumPlayers(g) > MaxPlayers THEN [err |-> ErrGameFull, game |-> g]
    ELSE [err |-> Ok,
          game |-> [g EXCEPT
              !.players = [q \in PlayerSet(g) \cup {playerID} |->
                              IF q = playerID THEN NewPlayer ELSE g.players[q]],
              !.hostId = HostAfterAdd(g.hostId, playerID)]]

GameAddPlayer(g, playerID) ==
    IF g.phase # PhaseLobby THEN [err |-> ErrGameAlreadyStarted, game |-> g]
    ELSE IF NumPlayers(g) >= MaxPlayers THEN [err |-> ErrGameFull, game |-> g]
    ELSE [err |-> Ok,
          game |-> [g EXCEPT
              !.players = [q \in PlayerSet(g) \cup {playerID} |->
                              IF q = playerID THEN NewPlayer ELSE g.players[q]],
              !.hostId = HostAfterAdd(g.hostId, playerID)]]

\* "If host left, assign new host": first is the id the range over the
\* remaining players yields first.
\* RemovePlayer without the reassignment of the host
HostAfterRemoveKept(hostID, playerID, remaining, first) == hostID

HostAfterRemove(hostID, playerID, remaining, first) ==
    IF hostID = playerID /\ Cardinality(remaining) > 0 THEN first ELSE hostID

GameRemovePlayer(g, playerID, first) ==
    IF playerID \notin PlayerSet(g) THEN [err |-> ErrPlayerNotFound, game |-> g]
    ELSE LET remaining == PlayerSet(g) \ {playerID}
         IN  [err |-> Ok,
              game |-> [g EXCEPT
                  !.players = [q \in remaining |-> g.players[q]],
                  !.hostId = HostAfterRemove(g.hostId, playerID, remaining, first)]]

\* CanStart without the test of the phase
CanStartAnyPhase(g) == NumPlayers(g) >= MinPlayers

CanStart(g) == g.phase = PhaseLobby /\ NumPlayers(g) >= MinPlayers

\* IsHost that takes every caller for the host
IsHostAnyone(g, playerID) == TRUE

IsHost(g, playerID) == g.hostId = playerID

\* The role test of StartRound inverted
AssignRoleInverted(playerID, imposterID) ==
    IF playerID # imposterID THEN RoleImposter ELSE RoleVilek

\* The role StartRound gives player playerID
AssignRole(playerID, imposterID) ==
    IF playerID = imposterID THEN RoleImposter ELSE RoleVilek

\* StartRound without the phase test
GameStartRoundAnyPhase(g, secretWord, order, imposterID) ==
    IF NumPlayers(g) < MinPlayers THEN [err |-> ErrNotEnoughPlayers, game |-> g]
    ELSE LET round == NewRound(Len(g.roundHistory) + 1, secretWord, order, imposterID)
         IN  [err |-> Ok,
              game |-> [g EXCEPT
                  !.players = [q \in PlayerSet(g) |->
                      [ResetForNewRound(g.players[q]) EXCEPT
                          !.role = AssignRole(q, round.imposterId)]],
                  !.rounds = Append(@, round),
                  !.currentRound = Len(g.rounds) + 1,
                  !.phase = PhaseRoleAssignment]]

GameStartRound(g, secretWord, order, imposterID) ==
    IF g.phase # PhaseLobby /\ g.phase # PhaseResults THEN [err |-> ErrInvalidPhase, game |-> g]
    ELSE IF NumPlayers(g) < MinPlayers THEN [err |-> ErrNotEnoughPlayers, game |-> g]
    ELSE LET round == NewRound(Len(g.roundHistory) + 1, secretWord, order, imposterID)
         IN  [err |-> Ok,
              game |-> [g EXCEPT
                  !.players = [q \in PlayerSet(g) |->
                      [ResetForNewRound(g.players[q]) EXCEPT
                          !.role = AssignRole(q, round.imposterId)]],
                  !.rounds = Append(@, round),
                  !.currentRound = Len(g.rounds) + 1,
                  !.phase = PhaseRoleAssignment]]

GameTransitionToSubmissionStays(g) == [err |-> Ok, game |-> g]

GameTransitionToSubmission(g) ==
    IF g.phase # PhaseRoleAssignment THEN [err |-> ErrInvalidTransition, game |-> g]
    ELSE [err |-> Ok, game |-> [g EXCEPT !.phase = PhaseSubmission]]

GameSubmitWord(g, playerID, word) ==
    IF g.phase # PhaseSubmission THEN [err |-> ErrInvalidPhase, game |-> g]
    ELSE IF ~HasRound(g) THEN [err |-> ErrInvalidPhase, game |-> g]
    ELSE IF TrimSpace(word) = <<>> THEN [err |-> ErrEmptyWord, game |-> g]
    ELSE IF playerID \notin PlayerSet(g) THEN [err |-> ErrPlayerNotFound, game |-> g]
    ELSE IF g.players[playerID].hasSubmitted THEN [err |-> ErrAlreadySubmitted, game |-> g]
    ELSE LET added == AddSubmission(CurrentRound(g), playerID, TrimSpace(word))
         IN  IF added.err # Ok THEN [err |-> added.err, game |-> g]
             ELSE [err |-> Ok,
                   game |-> [SetCurrentRound(g, added.round) EXCEPT
                                !.players[playerID].hasSubmitted = TRUE]]

GameAllSubmitted(g) == HasRound(g) /\ RoundAllSubmitted(CurrentRound(g))

GameTransitionToVoting(g) ==
    IF g.phase # PhaseSubmission THEN [err |-> ErrInvalidTransition, game |-> g]
    ELSE [err |-> Ok, game |-> [g EXCEPT !.phase = PhaseVoting]]

\* CastVote without the test that the target is a player
GameCastVoteAnyTarget(g, voterID, targetID) ==
    IF g.phase # PhaseVoting THEN [err |-> ErrInvalidPhase, game |-> g]
    ELSE IF ~HasRound(g) THEN [err |-> ErrInvalidPhase, game |-> g]
    ELSE IF voterID = targetID THEN [err |-> ErrCannotVoteSelf, game |-> g]
    ELSE IF voterID \notin PlayerSet(g) THEN [err |-> ErrPlayerNotFound, game |-> g]
    ELSE IF g.players[voterID].hasVoted THEN [err |-> ErrAlreadyVoted, game |-> g]
    ELSE LET added == AddVote(CurrentRound(g), voterID, targetID)
         IN  IF added.err # Ok THEN [err |-> added.err, game |-> g]
             ELSE [err |-> Ok,
                   game |-> [SetCurrentRound(g, added.round) EXCEPT
                                !.players[voterID].hasVoted = TRUE]]

\* CastVote setting the voter's flag before it tests the target
GameCastVoteFlagsFirst(g, voterID, targetID) ==
    IF g.phase # PhaseVoting THEN [err |-> ErrInvalidPhase, game |-> g]
    ELSE IF ~HasRound(g) THEN [err |-> ErrInvalidPhase, game |-> g]
    ELSE IF voterID = targetID THEN [err |-> ErrCannotVoteSelf, game |-> g]
    ELSE IF voterID \notin PlayerSet(g) THEN [err |-> ErrPlayerNotFound, game |-> g]
    ELSE IF g.players[voterID].hasVoted THEN [err |-> ErrAlreadyVoted, game |-> g]
    ELSE IF targetID \notin PlayerSet(g)
    THEN [err |-> ErrInvalidTargetID, game |-> [g EXCEPT !.players[voterID].hasVoted = TRUE]]
    ELSE LET added == AddVote(CurrentRound(g), voterID, targetID)
         IN  [err |-> added.err,
              game |-> [SetCurrentRound(g, added.round) EXCEPT
                           !.players[voterID].hasVoted = TRUE]]

GameCastVote(g, voterID, targetID) ==
    IF g.phase # PhaseVoting THEN [err |-> ErrInvalidPhase, game |-> g]
    ELSE IF ~HasRound(g) THEN [err |-> ErrInvalidPhase, game |-> g]
    ELSE IF voterID = targetID THEN [err |-> ErrCannotVoteSelf, game |-> g]
    ELSE IF voterID \notin PlayerSet(g) THEN [err |-> ErrPlayerNotFound, game |-> g]
    ELSE IF g.players[voterID].hasVoted THEN [err |-> ErrAlreadyVoted, game |-> g]
    ELSE IF targetID \notin PlayerSet(g) THEN [err |-> ErrInvalidTargetID, game |-> g]
    ELSE LET added == AddVote(CurrentRound(g), voterID, targetID)
         IN  IF added.err # Ok THEN [err |-> added.err, game |-> g]
             ELSE [err |-> Ok,
                   game |-> [SetCurrentRound(g, added.round) EXCEPT
                                !.players[voterID].hasVoted = TRUE]]

GameAllVoted(g) == HasRound(g) /\ RoundAllVoted(CurrentRound(g), NumPlayers(g))

\* Game.EndRound, the players map being iterated in order iter
\* EndRound without the append to the round history
GameEndRoundUnrecorded(g, iter) ==
    IF g.phase # PhaseVoting \/ ~HasRound(g)
    THEN [err |-> ErrInvalidPhase, game |-> g, results |-> << >>, winner |-> NoRole]
    ELSE LET calc == CalculateResults(CurrentRound(g), iter)
         IN  [err |-> Ok,
              results |-> calc.results,
              game |-> [SetCurrentRound(g, calc.round) EXCEPT !.phase = PhaseResults],
              winner |-> calc.winner]

GameEndRound(g, iter) ==
    IF g.phase # PhaseVoting
    THEN [err |-> ErrInvalidPhase, game |-> g, results |-> << >>, winner |-> NoRole]
    ELSE IF ~HasRound(g)
    THEN [err |-> ErrInvalidPhase, game |-> g, results |-> << >>, winner |-> NoRole]
    ELSE LET calc == CalculateResults(CurrentRound(g), iter)
         IN  [err |-> Ok,
              results |-> calc.results,
              game |-> [SetCurrentRound(g, calc.round) EXCEPT
                           !.roundHistory = Append(@, g.currentRound),
                           !.phase = PhaseResults],
              winner |-> calc.winner]

\* A nil pointer or an empty map: no fields
Nil == [x \in {} |-> ""]

\* Player.ToInfo with the role among the fields
ToInfoWithRole(playerID, p) ==
    [id |-> playerID, hasVoted |-> p.hasVoted, hasSubmitted |-> p.hasSubmitted,
     status |-> p.status, role |-> p.role]

\* Player.ToInfo: the PlayerInfo view of player p, whose id is playerID
ToInfo(playerID, p) ==
    [id |-> playerID, hasVoted |-> p.hasVoted, hasSubmitted |-> p.hasSubmitted,
     status |-> p.status]

\* GetPlayerInfoList: the infos of all players; the order of the slice is
\* the order of the map iteration and is left out.
GetPlayerInfoList(g) == {ToInfo(q, g.players[q]) : q \in PlayerSet(g)}

GetLobbyState(g) ==
    [players |-> GetPlayerInfoList(g), hostId |-> g.hostId, canStart |-> CanStart(g)]

GetSubmissionState(g) ==
    IF ~HasRound(g) THEN Nil
    ELSE [submissions |-> CurrentRound(g).submissions,
          currentPlayerId |-> GetCurrentPlayerID(CurrentRound(g)),
          isComplete |-> RoundAllSubmitted(CurrentRound(g))]

GetVoteProgress(g) ==
    IF ~HasRound(g) THEN Nil
    ELSE [votedCount |-> GetVotedCount(CurrentRound(g)), totalPlayers |-> NumPlayers(g)]

----------------------------------------------------------------------------
(* domain: events *)

EventPlayerJoined == "PLAYER_JOINED"
EventPlayerLeft == "PLAYER_LEFT"
EventPlayerReconnected == "PLAYER_RECONNECTED"
EventRolesAssigned == "ROLES_ASSIGNED"
EventSubmissionMade == "SUBMISSION_MADE"
EventVotingStarted == "VOTING_STARTED"
EventVoteCast == "VOTE_CAST"
EventRoundEnded == "ROUND_ENDED"

\* NewEvent: an event for every client; PlayerID is left empty
NewEvent(eventType, payload) == [type |-> eventType, playerId |-> "", payload |-> payload]

\* NewPlayerEvent: an event for the client of playerID
NewPlayerEvent(eventType, playerID, payload) ==
    [type |-> eventType, playerId |-> playerID, payload |-> payload]

\* The zero GameEvent
NoEvent == NewEvent("", Nil)

----------------------------------------------------------------------------
(* app: GameHub *)

\* The room codes generateRoomCode can yield
RoomCodes == {"AAAAAA", "BBBBBB", "CCCCCC"}

ErrNoUniqueCode == "failed to generate unique room code"

\* NewGameHub.  sessions maps a room code to its session, the sessions
\* being numbered in the order of their creation; created is the number of
\* sessions made so far, closed the sessions the hub has called Close on.
\* busy is the room code of the session a holder of h.mu is closing ("" when
\* there is none), old the sessions created more than StaleGameTimeout ago.
NewGameHub ==
    [sessions |-> [c \in {} |-> 0], created |-> 0, closed |-> {}, busy |-> "", old |-> {}]

\* The loop of CreateGame from attempt n on, gen[n] being the code the
\* n-th call of generateRoomCode yields: the value of roomCode after it
RECURSIVE LastRoomCode(_, _, _)
LastRoomCode(sessions, gen, n) ==
    IF gen[n] \notin DOMAIN sessions \/ n = MaxAttempts THEN gen[n]
    ELSE LastRoomCode(sessions, gen, n + 1)

\* The session registered under roomCode, whatever was there
Registered(h, roomCode) ==
    [h EXCEPT !.sessions = [c \in DOMAIN h.sessions \cup {roomCode} |->
                               IF c = roomCode THEN h.created + 1 ELSE h.sessions[c]],
              !.created = @ + 1]

\* CreateGame without the test after the loop
CreateGameUnchecked(h, gen) ==
    [err |-> Ok, hub |-> Registered(h, LastRoomCode(h.sessions, gen, 1))]

\* GameHub.CreateGame on hub h: what it returns and the hub afterwards
CreateGameOutcome(h, gen) ==
    LET roomCode == LastRoomCode(h.sessions, gen, 1)
    IN  IF roomCode \in DOMAIN h.sessions
        THEN [err |-> ErrNoUniqueCode, hub |-> h]
        ELSE [err |-> Ok, hub |-> Registered(h, roomCode)]

CreateGame(gen) ==
    /\ hub' = CreateGameOutcome(hub, gen).hub
    /\ UNCHANGED <<game, countdownDone, closedChans, tasks, reveals, queued, stats, removals,
                   events, clients, closing, sync>>

\* GameHub.DeleteSession
DeleteSession(roomCode) ==
    /\ hub' = IF roomCode \in DOMAIN hub.sessions
              THEN [hub EXCEPT
                       !.sessions = [c \in DOMAIN hub.sessions \ {roomCode} |-> hub.sessions[c]],
                       !.closed = @ \cup {hub.sessions[roomCode]}]
              ELSE hub
    /\ UNCHANGED <<game, countdownDone, closedChans, tasks, reveals, queued, stats, removals,
                   events, clients, closing, sync>>

----------------------------------------------------------------------------
(* app: GameSession *)

\* queueEvent: a send on the buffered channel s.events that never blocks;
\* the event is dropped when the buffer is full.
\* The buffer of s.events without a capacity
EventAcceptedAlways(q) == TRUE

EventAccepted(q) == q < QueueCap

QueueEvent(q) == IF EventAccepted(q) THEN q + 1 ELSE q

RECURSIVE QueueEvents(_, _)
QueueEvents(q, n) == IF n = 0 THEN q ELSE QueueEvents(QueueEvent(q), n - 1)

\* queueEvent for each event of list in turn, with the new event put in
\* front of the waiting ones
RECURSIVE SendInFront(_, _)
SendInFront(queue, list) ==
    IF list = << >> THEN queue
    ELSE SendInFront(IF EventAccepted(Len(queue)) THEN <<Head(list)>> \o queue ELSE queue,
                     Tail(list))

\* queueEvent for each event of list in turn, on the contents of s.events
RECURSIVE Send(_, _)
Send(queue, list) ==
    IF list = << >> THEN queue
    ELSE Send(IF EventAccepted(Len(queue)) THEN Append(queue, Head(list)) ELSE queue,
              Tail(list))

\* s.events after the events of list were passed to queueEvent
Emit(ev, list) == IF ev.traced THEN [ev EXCEPT !.queue = Send(@, list)] ELSE ev

NewStats ==
    [toSubmission |-> 0, submissionPhaseCalls |-> 0,
     toVoting |-> 0, votingStartedCalls |-> 0, votingStartedQueued |-> 0,
     countdowns |-> 0,
     ended |-> 0, roundEndedCalls |-> 0, roundEndedQueued |-> 0]

Bump(st, n, field) == [st EXCEPT ![n][field] = @ + 1]

BumpIf(st, n, field, cond) == IF cond THEN Bump(st, n, field) ELSE st

\* A votingCountdown goroutine: ch is the value of s.countdownDone it read
\* when it last entered its select.  A goroutine that has returned has no
\* locals left.
NewTask(round) == [round |-> round, pc |-> "enter", remaining |-> VotingSeconds, ch |-> 0]

Returned(task, how) == [task EXCEPT !.pc = how, !.remaining = 0, !.ch = 0]

----------------------------------------------------------------------------
(* Locks: h.mu of the hub, s.mu and s.clientsMu of a session, c.mu of a   *)
(* client.  A call is the sequence of its lock operations, channel        *)
(* operations and returns, in the order of the code.                      *)

HubMu == "h.mu"
GameMu == "s.mu"
ClientsMu == "s.clientsMu"
ClientMu == "c.mu"

Locks == {HubMu, GameMu, ClientsMu, ClientMu}

\* The goroutines: the one of a websocket connection, the timers of the
\* session (role reveal and countdown), the session's eventLoop, and a
\* caller of the hub (its cleanupLoop included)
Threads == {"conn", "timer", "eventLoop", "hub"}

\* One operation of a call; in names a method the operation is inside of
Op(op, lock, in) == [op |-> op, lock |-> lock, in |-> in]

\* mu.Lock() ... mu.Unlock() around body, and the same for RLock
Locked(lock, in, body) == <<Op("Lock", lock, in)>> \o body \o <<Op("Unlock", lock, in)>>

RLocked(lock, in, body) == <<Op("RLock", lock, in)>> \o body \o <<Op("RUnlock", lock, in)>>

\* queueEvent: the select with a default case
QueueEventOp == Op("queue", "", "")

\* AddPlayer, DisconnectPlayer, ReconnectPlayer, StartGame, SubmitWord,
\* CastVote, StartNewRound, transitionToSubmission, endVotingPhase: s.mu is
\* held from the first statement to the return, events are queued under it
SessionMutation == Locked(GameMu, "", <<QueueEventOp>>)

\* GetGame, GetPlayerCount, GetPhase, CanJoin, GetGameState
SessionRead == RLocked(GameMu, "", << >>)

\* RegisterClient, UnregisterClient
RegistryWrite == Locked(ClientsMu, "", << >>)

\* Client.Send: c.mu around a send on c.send that does not block
ClientSendOps == Locked(ClientMu, "Send", <<Op("send", "", "Send")>>)

\* Client.Close
ClientCloseOps == Locked(ClientMu, "", << >>)

\* broadcastEvent that takes the client's mutex before the registry's
BroadcastOpsClientFirst ==
    <<Op("recv", "", "")>> \o Locked(ClientMu, "Send", RLocked(ClientsMu, "", <<Op("send", "", "Send")>>))

\* eventLoop taking one event and broadcastEvent handing it to a client
BroadcastOps == <<Op("recv", "", "")>> \o RLocked(ClientsMu, "", ClientSendOps)

\* GameSession.Close from its third statement on
SessionCloseOps == Locked(ClientsMu, "", ClientCloseOps)

\* The calls and what they do
CallOps(call) ==
    CASE call = "SessionMutation" -> SessionMutation
      [] call = "votingCountdown" -> <<QueueEventOp>>
      [] call = "GetGameState" -> SessionRead
      [] call = "RegisterClient" -> RegistryWrite
      [] call = "Send" -> ClientSendOps
      [] call = "readPump" -> RegistryWrite \o SessionMutation \o ClientCloseOps
      [] call = "eventLoop" -> BroadcastOps
      [] call = "CreateGame" -> Locked(HubMu, "", << >>)
      [] call = "GetSession" -> RLocked(HubMu, "", << >>)
      [] call = "GetTotalPlayerCount" -> RLocked(HubMu, "", SessionRead)
      [] call = "DeleteSession" -> Locked(HubMu, "", SessionCloseOps)
      [] call = "cleanupStaleGames" -> Locked(HubMu, "", SessionRead \o SessionCloseOps)

\* The calls each goroutine makes
CallsOf(t) ==
    CASE t = "conn" -> {"GetSession", "RegisterClient", "SessionMutation", "GetGameState",
                        "Send", "readPump"}
      [] t = "timer" -> {"SessionMutation", "votingCountdown"}
      [] t = "eventLoop" -> {"eventLoop"}
      [] t = "hub" -> {"CreateGame", "GetTotalPlayerCount", "DeleteSession", "cleanupStaleGames"}

\* No call in progress, every mutex free.  writer is the goroutine that
\* holds the mutex for writing, readers those that hold it for reading,
\* pending the goroutine whose Lock waits for the readers to leave.
NewSync ==
    [call |-> [t \in Threads |-> ""],
     todo |-> [t \in Threads |-> << >>],
     writer |-> [l \in Locks |-> ""],
     readers |-> [l \in Locks |-> {}],
     pending |-> [l \in Locks |-> ""]]

\* sync.RWMutex: Lock goes through when nobody holds the mutex; RLock when
\* no writer holds it or waits for it
CanLock(sy, t, l) == sy.writer[l] = "" /\ sy.readers[l] = {} /\ sy.pending[l] \in {"", t}

CanRLock(sy, t, l) == sy.writer[l] = "" /\ sy.pending[l] = ""

\* Lock announces itself to later readers when no other writer is there
CanAnnounce(sy, t, l) == sy.writer[l] = "" /\ sy.pending[l] = "" /\ sy.readers[l] # {}

\* A send on s.events that waits for room
CanQueueWithRoom(q) == q < QueueCap

\* queueEvent goes through whatever the number of events waiting
CanQueue(q) == TRUE

\* Goroutine t starts a call
StartCall(t, call) ==
    /\ sync.todo[t] = << >>
    /\ call \in CallsOf(t)
    /\ sync' = [sync EXCEPT !.call[t] = call, !.todo[t] = CallOps(call)]
    /\ UNCHANGED <<game, countdownDone, closedChans, tasks, reveals, queued, stats, removals,
                   events, clients, closing, hub>>

\* sync after goroutine t has done the first of its operations
Done(sy, t) == [sy EXCEPT !.todo[t] = Tail(@), !.call[t] = IF Len(sy.todo[t]) = 1 THEN "" ELSE @]

\* Goroutine t does the next operation of its call
Step(t) ==
    /\ sync.todo[t] # << >>
    /\ LET o == Head(sync.todo[t])
           l == o.lock
       IN  CASE o.op = "Lock" ->
                  /\ \/ /\ CanLock(sync, t, l)
                        /\ sync' = [Done(sync, t) EXCEPT !.writer[l] = t, !.pending[l] = ""]
                     \/ /\ CanAnnounce(sync, t, l)
                        /\ sync' = [sync EXCEPT !.pending[l] = t]
                  /\ UNCHANGED queued
             [] o.op = "RLock" ->
                  /\ CanRLock(sync, t, l)
                  /\ sync' = [Done(sync, t) EXCEPT !.readers[l] = @ \cup {t}]
                  /\ UNCHANGED queued
             [] o.op = "Unlock" ->
                  /\ sync' = [Done(sync, t) EXCEPT !.writer[l] = ""]
                  /\ UNCHANGED queued
             [] o.op = "RUnlock" ->
                  /\ sync' = [Done(sync, t) EXCEPT !.readers[l] = @ \ {t}]
                  /\ UNCHANGED queued
             [] o.op = "queue" ->
                  /\ CanQueue(queued)
                  /\ queued' = QueueEvent(queued)
                  /\ sync' = Done(sync, t)
             [] o.op = "recv" ->
                  /\ queued > 0
                  /\ queued' = queued - 1
                  /\ sync' = Done(sync, t)
             [] o.op = "send" ->
                  /\ sync' = Done(sync, t)
                  /\ UNCHANGED queued
    /\ UNCHANGED <<game, countdownDone, closedChans, tasks, reveals, stats, removals,
                   events, clients, closing, hub>>

\* The callers of Close: each is at one statement of Close, ch is the value
\* of s.countdownDone it read in the test of the if statement.
Closers == {"c1", "c2"}

NewCloser == [pc |-> "idle", ch |-> 0]

\* NewGameSession.  traced says whether the contents of s.events are part
\* of the state or only their number.
NewSession(traced) ==
    /\ game = NewGame
    /\ countdownDone = 0
    /\ closedChans = {}
    /\ tasks = << >>
    /\ reveals = 0
    /\ queued = 0
    /\ stats = << >>
    /\ removals = [host |-> 0, other |-> 0]
    /\ events = [traced |-> traced, queue |-> << >>, handed |-> NoEvent]
    /\ clients = [handles |-> << >>, registry |-> [p \in {} |-> 0]]
    /\ closing = [done |-> 0, closers |-> [c \in Closers |-> NewCloser], panics |-> {}]
    /\ hub = NewGameHub
    /\ sync = NewSync

Init == NewSession(FALSE)

InitTraced == NewSession(TRUE)

\* GameSession.CanJoin
CanJoin(g) == g.phase = PhaseLobby /\ NumPlayers(g) < MaxPlayers

\* GameSession.AddPlayer on game g with q events waiting: what it returns,
\* the game and the number of events waiting afterwards
AddPlayerOutcome(g, q, playerID) ==
    LET res == GameAddPlayer(g, playerID)
    IN  [err |-> res.err, game |-> res.game,
         queued |-> IF res.err = Ok THEN QueueEvent(q) ELSE q]

AddPlayer(playerID) ==
    LET out == AddPlayerOutcome(game, queued, playerID)
    IN  /\ game' = out.game
        /\ queued' = out.queued
        /\ events' = IF out.err = Ok
                     THEN Emit(events, <<NewEvent(EventPlayerJoined, GetLobbyState(out.game))>>)
                     ELSE events
        /\ UNCHANGED <<countdownDone, closedChans, tasks, reveals, stats, removals,
                       clients, closing, hub, sync>>

RemovePlayer(playerID, first) ==
    LET res == GameRemovePlayer(game, playerID, first)
    IN  /\ game' = res.game
        /\ queued' = IF res.err = Ok THEN QueueEvent(queued) ELSE queued
        /\ events' = IF res.err = Ok
                     THEN Emit(events, <<NewEvent(EventPlayerLeft, GetLobbyState(res.game))>>)
                     ELSE events
        /\ removals' = IF res.err # Ok THEN removals
                       ELSE IF IsHost(game, playerID) /\ NumPlayers(res.game) > 0
                       THEN [removals EXCEPT !.host = @ + 1]
                       ELSE [removals EXCEPT !.other = @ + 1]
        /\ UNCHANGED <<countdownDone, closedChans, tasks, reveals, stats, clients, closing, hub, sync>>

\* Player.Disconnect that also forgets what the player did in the round
DisconnectAndReset(p) == [ResetForNewRound(p) EXCEPT !.status = StatusDisconnected]

\* Player.Disconnect
Disconnect(p) == [p EXCEPT !.status = StatusDisconnected]

\* Player.Reconnect
Reconnect(p) == [p EXCEPT !.status = StatusConnected]

\* GameSession.DisconnectPlayer on game g: the game afterwards and the
\* events it queues
DisconnectPlayerOutcome(g, playerID) ==
    IF playerID \notin PlayerSet(g) THEN [game |-> g, emitted |-> << >>]
    ELSE LET g2 == [g EXCEPT !.players[playerID] = Disconnect(@)]
         IN  [game |-> g2, emitted |-> <<NewEvent(EventPlayerLeft, GetLobbyState(g2))>>]

DisconnectPlayer(playerID) ==
    LET out == DisconnectPlayerOutcome(game, playerID)
    IN  /\ game' = out.game
        /\ queued' = QueueEvents(queued, Len(out.emitted))
        /\ events' = Emit(events, out.emitted)
        /\ UNCHANGED <<countdownDone, closedChans, tasks, reveals, stats, removals,
                       clients, closing, hub, sync>>

\* GameSession.ReconnectPlayer on game g: what it returns, the game
\* afterwards and the events it queues
ReconnectPlayerOutcome(g, playerID) ==
    IF playerID \notin PlayerSet(g)
    THEN [err |-> ErrPlayerNotFound, game |-> g, emitted |-> << >>]
    ELSE LET g2 == [g EXCEPT !.players[playerID] = Reconnect(@)]
         IN  [err |-> Ok, game |-> g2,
              emitted |-> <<NewEvent(EventPlayerReconnected, GetLobbyState(g2))>>]

ReconnectPlayer(playerID) ==
    LET out == ReconnectPlayerOutcome(game, playerID)
    IN  /\ game' = out.game
        /\ queued' = QueueEvents(queued, Len(out.emitted))
        /\ events' = Emit(events, out.emitted)
        /\ UNCHANGED <<countdownDone, closedChans, tasks, reveals, stats, removals,
                       clients, closing, hub, sync>>

\* RoleAssignedPayload with the secret word for every role
RoleAssignedPayloadToAll(g, pid) ==
    [role |-> g.players[pid].role, secretWord |-> CurrentRound(g).secretWord]

\* The payload StartGame and StartNewRound build for player pid
RoleAssignedPayload(g, pid) ==
    [role |-> g.players[pid].role,
     secretWord |-> IF g.players[pid].role = RoleVilek
                    THEN CurrentRound(g).secretWord ELSE ""]

\* The events of the loop over s.game.Players in StartGame and
\* StartNewRound, the map being iterated in order iter
RoleEvents(g, iter) ==
    [i \in 1..Len(iter) |->
        NewPlayerEvent(EventRolesAssigned, iter[i], RoleAssignedPayload(g, iter[i]))]

\* The orders of that loop: all of them where the contents of the queue
\* are part of the state, where the order shows
RoleOrders(g) ==
    IF events.traced THEN Perms(PlayerSet(g)) ELSE {<< >>}

\* The part StartGame and StartNewRound share, from s.game.StartRound on
StartRoundAndReveal(secretWord, order, imposterID) ==
    LET res == GameStartRound(game, secretWord, order, imposterID)
    IN  /\ game' = res.game
        /\ IF res.err = Ok
           THEN /\ queued' = QueueEvents(queued, NumPlayers(res.game))
                /\ \E iter \in RoleOrders(res.game) :
                       events' = Emit(events, RoleEvents(res.game, iter))
                /\ reveals' = reveals + 1
                /\ stats' = Append(stats, NewStats)
           ELSE UNCHANGED <<queued, events, reveals, stats, sync>>
        /\ UNCHANGED <<countdownDone, closedChans, tasks, removals, clients, closing, hub, sync>>

\* What GameSession.StartGame returns
StartGameError(g, playerID, secretWord, order, imposterID) ==
    IF ~IsHost(g, playerID) THEN ErrNotHost
    ELSE GameStartRound(g, secretWord, order, imposterID).err

StartGame(playerID, secretWord, order, imposterID) ==
    IF StartGameError(game, playerID, secretWord, order, imposterID) = ErrNotHost
    THEN UNCHANGED vars
    ELSE StartRoundAndReveal(secretWord, order, imposterID)

\* What GameSession.StartNewRound returns
StartNewRoundError(g, playerID, secretWord, order, imposterID) ==
    IF ~IsHost(g, playerID) THEN ErrNotHost
    ELSE IF g.phase # PhaseResults THEN ErrInvalidPhase
    ELSE GameStartRound(g, secretWord, order, imposterID).err

StartNewRound(playerID, secretWord, order, imposterID) ==
    IF StartNewRoundError(game, playerID, secretWord, order, imposterID)
           \in {ErrNotHost, ErrInvalidPhase}
    THEN UNCHANGED vars
    ELSE StartRoundAndReveal(secretWord, order, imposterID)

\* The payload transitionToSubmission builds: the infos of the players of
\* playerOrder that are still in the game, in that order
SubmissionPhasePayload(g) ==
    LET present == Restrict(CurrentRound(g).playerOrder, PlayerSet(g))
    IN  [currentPlayerId |-> GetCurrentPlayerID(CurrentRound(g)),
         playerOrder |-> [i \in 1..Len(present) |-> ToInfo(present[i], g.players[present[i]])],
         submissions |-> CurrentRound(g).submissions]

\* The goroutine StartGame and StartNewRound start: after the sleep,
\* s.transitionToSubmission()
TransitionToSubmission ==
    /\ reveals > 0
    /\ reveals' = reveals - 1
    /\ IF game.phase # PhaseRoleAssignment
       THEN UNCHANGED <<game, queued, events, stats, sync>>
       ELSE LET g2 == GameTransitionToSubmission(game).game
            IN  /\ game' = g2
                /\ queued' = QueueEvent(queued)
                /\ events' = Emit(events,
                                  <<NewEvent(EventSubmissionMade, SubmissionPhasePayload(g2))>>)
                /\ stats' = Bump(Bump(stats, game.currentRound, "toSubmission"),
                                 game.currentRound, "submissionPhaseCalls")
    /\ UNCHANGED <<countdownDone, closedChans, tasks, removals, clients, closing, hub, sync>>

\* The payload startVotingPhase builds
VotingPhasePayload(g) ==
    [remainingSeconds |-> VotingSeconds, players |-> GetPlayerInfoList(g)]

SubmitWord(playerID, word) ==
    LET res == GameSubmitWord(game, playerID, word)
        n == game.currentRound
        q1 == QueueEvent(queued)
        made == NewEvent(EventSubmissionMade, GetSubmissionState(res.game))
    IN  IF res.err # Ok
        THEN UNCHANGED vars
        ELSE IF ~GameAllSubmitted(res.game)
        THEN /\ game' = res.game
             /\ queued' = q1
             /\ events' = Emit(events, <<made>>)
             /\ UNCHANGED <<countdownDone, closedChans, tasks, reveals, stats, removals,
                            clients, closing, hub, sync>>
        ELSE \* s.game.TransitionToVoting(); s.startVotingPhase()
             LET tv == GameTransitionToVoting(res.game)
             IN  /\ game' = tv.game
                 /\ queued' = QueueEvent(q1)
                 /\ events' = Emit(events,
                        <<made, NewEvent(EventVotingStarted, VotingPhasePayload(tv.game))>>)
                 /\ countdownDone' = Len(tasks) + 1
                 /\ tasks' = Append(tasks, NewTask(n))
                 /\ stats' = BumpIf(Bump(Bump(BumpIf(stats, n, "toVoting", tv.err = Ok),
                                              n, "votingStartedCalls"),
                                         n, "countdowns"),
                                    n, "votingStartedQueued", EventAccepted(q1))
                 /\ UNCHANGED <<closedChans, reveals, removals, clients, closing, hub, sync>>

\* An order in which the players map of g can be iterated; one choice is
\* enough when the phase guard makes the caller return before it iterates.
IterOrders(g) == IF g.phase = PhaseVoting THEN Perms(PlayerSet(g)) ELSE {<< >>}

\* The payload endVotingPhaseUnlocked builds from what EndRound returned
RoundResultsPayload(g, results, winner) ==
    [votes |-> results,
     imposterId |-> CurrentRound(g).imposterId,
     winner |-> winner,
     secretWord |-> CurrentRound(g).secretWord]

\* endVotingPhaseUnlocked without the phase test and with the error of
\* EndRound ignored
EndVotingPhaseUnguarded(g, q, st, iter) ==
    LET res == GameEndRound(g, iter)
        n == g.currentRound
    IN  [game |-> res.game,
         queued |-> QueueEvent(q),
         emitted |-> <<NewEvent(EventRoundEnded,
                                RoundResultsPayload(res.game, res.results, res.winner))>>,
         stats |-> BumpIf(Bump(BumpIf(st, n, "ended", res.err = Ok), n, "roundEndedCalls"),
                          n, "roundEndedQueued", EventAccepted(q))]

\* endVotingPhaseUnlocked on game g with queue length q and counters st, the
\* players map being iterated in order iter
EndVotingPhaseUnlocked(g, q, st, iter) ==
    IF g.phase # PhaseVoting
    THEN [game |-> g, queued |-> q, emitted |-> << >>, stats |-> st]
    ELSE LET res == GameEndRound(g, iter)
             n == g.currentRound
         IN  IF res.err # Ok
             THEN [game |-> g, queued |-> q, emitted |-> << >>, stats |-> st]
             ELSE [game |-> res.game,
                   queued |-> QueueEvent(q),
                   emitted |-> <<NewEvent(EventRoundEnded,
                                   RoundResultsPayload(res.game, res.results, res.winner))>>,
                   stats |-> BumpIf(Bump(Bump(st, n, "ended"), n, "roundEndedCalls"),
                                    n, "roundEndedQueued", EventAccepted(q))]

\* close(ch) on a channel that is nil or closed already panics
ClosePanics(ch, closed) == ch = 0 \/ ch \in closed

CastVote(voterID, targetID) ==
    LET res == GameCastVote(game, voterID, targetID)
        q1 == QueueEvent(queued)
        cast == NewEvent(EventVoteCast, GetVoteProgress(res.game))
    IN  IF res.err # Ok
        THEN UNCHANGED vars
        ELSE IF ~GameAllVoted(res.game)
        THEN /\ game' = res.game
             /\ queued' = q1
             /\ events' = Emit(events, <<cast>>)
             /\ UNCHANGED <<countdownDone, closedChans, tasks, reveals, stats, removals,
                            clients, closing, hub, sync>>
        ELSE IF countdownDone # 0 /\ ClosePanics(countdownDone, closedChans)
        THEN \* close(s.countdownDone) panics
             /\ game' = res.game
             /\ queued' = q1
             /\ events' = Emit(events, <<cast>>)
             /\ closing' = [closing EXCEPT !.panics = @ \cup {"countdownDone"}]
             /\ UNCHANGED <<countdownDone, closedChans, tasks, reveals, stats, removals,
                            clients, hub, sync>>
        ELSE \E iter \in IterOrders(res.game) :
             LET end == EndVotingPhaseUnlocked(res.game, q1, stats, iter)
             IN  /\ closedChans' = IF countdownDone # 0
                                   THEN closedChans \cup {countdownDone}
                                   ELSE closedChans
                 /\ countdownDone' = 0
                 /\ game' = end.game
                 /\ queued' = end.queued
                 /\ events' = Emit(events, <<cast>> \o end.emitted)
                 /\ stats' = end.stats
                 /\ UNCHANGED <<tasks, reveals, removals, clients, closing, hub, sync>>

\* votingCountdown enters its select: it reads s.countdownDone, without the lock
CountdownEnter(i) ==
    /\ tasks[i].pc = "enter"
    /\ tasks' = [tasks EXCEPT ![i].pc = "wait", ![i].ch = countdownDone]
    /\ UNCHANGED <<game, countdownDone, closedChans, reveals, queued, stats, removals,
                   events, clients, closing, hub, sync>>

\* case <-s.countdownDone: return
CountdownCancelled(i) ==
    /\ tasks[i].pc = "wait"
    /\ tasks[i].ch \in closedChans
    /\ tasks' = [tasks EXCEPT ![i] = Returned(@, "cancelled")]
    /\ UNCHANGED <<game, countdownDone, closedChans, reveals, queued, stats, removals,
                   events, clients, closing, hub, sync>>

\* case <-s.done: return
CountdownStopped(i) ==
    /\ tasks[i].pc = "wait"
    /\ closing.done > 0
    /\ tasks' = [tasks EXCEPT ![i] = Returned(@, "stopped")]
    /\ UNCHANGED <<game, countdownDone, closedChans, reveals, queued, stats, removals,
                   events, clients, closing, hub, sync>>

\* The payload of the countdown event
VotingCountdownPayload(remaining) == [remainingSeconds |-> remaining]

CountdownTickStuck(i) ==
    /\ tasks[i].pc = "wait"
    /\ tasks' = [tasks EXCEPT ![i].pc = "enter"]
    /\ queued' = QueueEvent(queued)
    /\ events' = Emit(events,
           <<NewEvent(EventVoteCast, VotingCountdownPayload(tasks[i].remaining))>>)
    /\ UNCHANGED <<game, stats, countdownDone, closedChans, reveals, removals, clients,
                   closing, hub, sync>>

\* case <-ticker.C
CountdownTick(i) ==
    /\ tasks[i].pc = "wait"
    /\ LET remaining == tasks[i].remaining - 1
       IN  IF remaining <= 0
           THEN \E iter \in IterOrders(game) :
                LET end == EndVotingPhaseUnlocked(game, queued, stats, iter)
                IN  /\ tasks' = [tasks EXCEPT ![i] = Returned(@, "expired")]
                    /\ game' = end.game
                    /\ queued' = end.queued
                    /\ events' = Emit(events, end.emitted)
                    /\ stats' = end.stats
           ELSE /\ tasks' = [tasks EXCEPT ![i].pc = "enter", ![i].remaining = remaining]
                /\ queued' = QueueEvent(queued)
                /\ events' = Emit(events,
                       <<NewEvent(EventVoteCast, VotingCountdownPayload(remaining))>>)
                /\ UNCHANGED <<game, stats, sync>>
    /\ UNCHANGED <<countdownDone, closedChans, reveals, removals, clients, closing, hub, sync>>

\* Client.Send(message) on handle c: a closed client takes nothing, a full
\* send buffer drops the message, and the caller gets nil in every case
ClientSend(c, message) ==
    [c EXCEPT !.calls = @ + 1,
              !.send = IF c.closed > 0 \/ Len(c.send) >= SendBufferSize
                       THEN @ ELSE Append(@, message)]

\* broadcastEvent sending every event to every registered client
SendTargetsAll(cl, event) == {cl.registry[q] : q \in DOMAIN cl.registry}

\* The handles broadcastEvent calls Send on: the client registered for
\* event.PlayerID if there is one, every registered client otherwise
SendTargets(cl, event) ==
    IF event.playerId # ""
    THEN IF event.playerId \in DOMAIN cl.registry THEN {cl.registry[event.playerId]} ELSE {}
    ELSE {cl.registry[q] : q \in DOMAIN cl.registry}

\* GameSession.broadcastEvent(event), under the read lock of the registry
BroadcastEvent(cl, event) ==
    [cl EXCEPT !.handles = [h \in DOMAIN cl.handles |->
                               IF h \in SendTargets(cl, event)
                               THEN ClientSend(cl.handles[h], event)
                               ELSE cl.handles[h]]]

\* eventLoop takes one event from the queue and passes it to
\* broadcastEvent.  The specifications that keep only the number of waiting
\* events register no client while eventLoop runs.
EventLoop ==
    /\ queued > 0
    /\ queued' = queued - 1
    /\ events' = IF events.traced
                 THEN [events EXCEPT !.queue = Tail(@), !.handed = Head(events.queue)]
                 ELSE events
    /\ clients' = IF events.traced THEN BroadcastEvent(clients, Head(events.queue))
                  ELSE clients
    /\ UNCHANGED <<game, countdownDone, closedChans, tasks, reveals, stats, removals,
                   closing, hub, sync>>

\* ws.NewClient: a client handle for a connection of playerID; send is
\* the contents of its send buffer, calls counts the calls of its Send, closed
\* counts the calls of its Close by the session
NewClient(playerID) == [playerId |-> playerID, closed |-> 0, send |-> << >>, calls |-> 0]

\* GameSession.RegisterClient with a handle just made by ServeHTTP
RegisterClient(playerID) ==
    /\ clients' = [handles |-> Append(clients.handles, NewClient(playerID)),
                   registry |-> [q \in DOMAIN clients.registry \cup {playerID} |->
                                    IF q = playerID THEN Len(clients.handles) + 1
                                    ELSE clients.registry[q]]]
    /\ UNCHANGED <<game, countdownDone, closedChans, tasks, reveals, queued, stats, removals,
                   events, closing, hub, sync>>

\* Client.writePump takes the first message of the send buffer and, with
\* it, all the messages waiting behind it
WritePump(h) ==
    /\ clients.handles[h].send # << >>
    /\ clients.handles[h].closed = 0
    /\ clients' = [clients EXCEPT !.handles[h].send = << >>]
    /\ UNCHANGED <<game, countdownDone, closedChans, tasks, reveals, queued, stats, removals,
                   events, closing, hub, sync>>

\* GameSession.UnregisterClient
UnregisterClient(playerID) ==
    /\ clients' = [clients EXCEPT
           !.registry = [q \in DOMAIN clients.registry \ {playerID} |-> clients.registry[q]]]
    /\ UNCHANGED <<game, countdownDone, closedChans, tasks, reveals, queued, stats, removals,
                   events, closing, hub, sync>>

\* GameSession.Close, statement by statement: it takes no lock but
\* clientsMu around its last part.
\* select { case <-s.done: return; default: ... }
CloseSelect(c) ==
    /\ closing.closers[c].pc = "idle"
    /\ closing' = [closing EXCEPT
           !.closers[c].pc = IF closing.done > 0 THEN "returned" ELSE "default"]
    /\ UNCHANGED <<game, countdownDone, closedChans, tasks, reveals, queued, stats, removals,
                   events, clients, hub, sync>>

\* close(s.done) in the default case: closing.done counts these calls, the
\* second one panics
CloseDone(c) ==
    /\ closing.closers[c].pc = "default"
    /\ closing' = [closing EXCEPT
           !.done = @ + 1,
           !.panics = IF closing.done > 0 THEN @ \cup {"done"} ELSE @,
           !.closers[c].pc = "test"]
    /\ UNCHANGED <<game, countdownDone, closedChans, tasks, reveals, queued, stats, removals,
                   events, clients, hub, sync>>

\* if s.countdownDone != nil: a read without the lock
CloseTest(c) ==
    /\ closing.closers[c].pc = "test"
    /\ closing' = [closing EXCEPT
           !.closers[c] = IF countdownDone # 0
                          THEN [pc |-> "close", ch |-> countdownDone]
                          ELSE [pc |-> "clients", ch |-> 0]]
    /\ UNCHANGED <<game, countdownDone, closedChans, tasks, reveals, queued, stats, removals,
                   events, clients, hub, sync>>

\* close(s.countdownDone): the channel is the one the test read or the one
\* the field holds now, as the build reads the field once or twice; the
\* field is left as it is
CloseCountdown(c) ==
    /\ closing.closers[c].pc = "close"
    /\ \E ch \in {closing.closers[c].ch, countdownDone} :
           /\ closedChans' = IF ch # 0 THEN closedChans \cup {ch} ELSE closedChans
           /\ closing' = [closing EXCEPT
                  !.panics = IF ClosePanics(ch, closedChans)
                             THEN @ \cup {"countdownDone"} ELSE @,
                  !.closers[c] = [pc |-> "clients", ch |-> 0]]
    /\ UNCHANGED <<game, countdownDone, tasks, reveals, queued, stats, removals,
                   events, clients, hub, sync>>

\* Under clientsMu: client.Close() for every client of s.clients, then
\* s.clients = make(map)
CloseClients(c) ==
    /\ closing.closers[c].pc = "clients"
    /\ clients' = [handles |-> [h \in DOMAIN clients.handles |->
                                   IF \E q \in DOMAIN clients.registry : clients.registry[q] = h
                                   THEN [clients.handles[h] EXCEPT !.closed = @ + 1]
                                   ELSE clients.handles[h]],
                   registry |-> [q \in {} |-> 0]]
    /\ closing' = [closing EXCEPT !.closers[c].pc = "returned"]
    /\ UNCHANGED <<game, countdownDone, closedChans, tasks, reveals, queued, stats, removals,
                   events, hub, sync>>

\* GameHub and the first session it creates: that session is the one the
\* other variables describe; nobody joins the sessions created after it.
ErrGameNotFound == "game not found"

\* GameHub.GetSession on hub h
GetSession(h, roomCode) ==
    IF roomCode \in DOMAIN h.sessions
    THEN [err |-> Ok, session |-> h.sessions[roomCode]]
    ELSE [err |-> ErrGameNotFound, session |-> 0]

\* GameSession.GetPlayerCount of session id
GetPlayerCount(id) == IF id = 1 THEN NumPlayers(game) ELSE 0

\* now.Sub(session.GetCreatedAt()) > StaleGameTimeout becomes true of session id
GrowOld(id) ==
    /\ id \in 1..hub.created
    /\ id \notin hub.old
    /\ hub' = [hub EXCEPT !.old = @ \cup {id}]
    /\ UNCHANGED <<game, countdownDone, closedChans, tasks, reveals, queued, stats, removals,
                   events, clients, closing, sync>>

\* The hub without the sessions under the codes gone, Close called on each
Removed(h, gone) ==
    [h EXCEPT !.sessions = [c \in DOMAIN h.sessions \ gone |-> h.sessions[c]],
              !.closed = @ \cup {h.sessions[c] : c \in gone}]

\* GameHub.DeleteSession of the code of the first session, up to the call
\* of session.Close: h.mu is taken and held
DeleteSessionEnter(roomCode) ==
    /\ hub.busy = ""
    /\ roomCode \in DOMAIN hub.sessions
    /\ hub.sessions[roomCode] = 1
    /\ hub' = [hub EXCEPT !.busy = roomCode]
    /\ UNCHANGED <<game, countdownDone, closedChans, tasks, reveals, queued, stats, removals,
                   events, clients, closing, sync>>

\* The sessions cleanupStaleGames puts into its list
StaleCodes(h) ==
    {c \in DOMAIN h.sessions : GetPlayerCount(h.sessions[c]) = 0 /\ h.sessions[c] \in h.old}

\* GameHub.cleanupStaleGames, up to the call of Close on the first session
\* if that one is in the list: the other sessions of the list are closed
\* and deleted, h.mu is held while the first session is being closed
CleanupStaleGames ==
    /\ hub.busy = ""
    /\ LET first == {c \in StaleCodes(hub) : hub.sessions[c] = 1}
           swept == Removed(hub, StaleCodes(hub) \ first)
       IN  hub' = IF first = {} THEN swept
                  ELSE [swept EXCEPT !.busy = CHOOSE c \in first : TRUE]
    /\ UNCHANGED <<game, countdownDone, closedChans, tasks, reveals, queued, stats, removals,
                   events, clients, closing, sync>>

\* session.Close() has returned: delete(h.sessions, roomCode), and h.mu is
\* released
DeleteSessionReturn ==
    /\ hub.busy # ""
    /\ closing.closers["c1"].pc = "returned"
    /\ hub' = [Removed(hub, {hub.busy}) EXCEPT !.busy = ""]
    /\ UNCHANGED <<game, countdownDone, closedChans, tasks, reveals, queued, stats, removals,
                   events, clients, closing, sync>>

\* GameSession.GetGameState(playerID), the players map being iterated in
\* order iter: the map it returns, and the game afterwards (in RESULTS
\* CalculateResults writes the winner of the current round again).  Later
\* assignments to the map overwrite earlier ones, so the operands of @@ are
\* in the reverse of the order of the code.
GetGameState(g, playerID, iter) ==
    LET base == [phase |-> g.phase, players |-> GetPlayerInfoList(g),
                 hostId |-> g.hostId, canStart |-> CanStart(g)]
        calc == CalculateResults(CurrentRound(g), iter)
        byPhase ==
            IF g.phase = PhaseSubmission /\ HasRound(g)
            THEN [submissions |-> CurrentRound(g).submissions,
                  currentPlayerId |-> GetCurrentPlayerID(CurrentRound(g))]
            ELSE IF g.phase = PhaseVoting
            THEN [voteProgress |-> GetVoteProgress(g)]
            ELSE IF g.phase = PhaseResults /\ HasRound(g)
            THEN [results |-> calc.results, winner |-> calc.winner,
                  imposterId |-> CurrentRound(g).imposterId,
                  secretWord |-> CurrentRound(g).secretWord]
            ELSE Nil
        own ==
            IF playerID \in PlayerSet(g) /\ g.players[playerID].role # NoRole
            THEN IF g.players[playerID].role = RoleVilek /\ HasRound(g)
                 THEN [role |-> g.players[playerID].role,
                       secretWord |-> CurrentRound(g).secretWord]
                 ELSE [role |-> g.players[playerID].role]
            ELSE Nil
    IN  [state |-> own @@ byPhase @@ base,
         game |-> IF g.phase = PhaseResults /\ HasRound(g)
                  THEN SetCurrentRound(g, calc.round) ELSE g]

\* The orders in which GetGameState can iterate the players map of g
SnapshotOrders(g) == IF g.phase = PhaseResults THEN Perms(PlayerSet(g)) ELSE {<< >>}

\* A call of GetGameState(playerID): under the read lock, in RESULTS it
\* calls CalculateResults, which writes the winner and the end of the
\* current round
GetGameStateCall(playerID) ==
    /\ \E iter \in SnapshotOrders(game) : game' = GetGameState(game, playerID, iter).game
    /\ UNCHANGED <<countdownDone, closedChans, tasks, reveals, queued, stats, removals,
                   events, clients, closing, hub, sync>>

----------------------------------------------------------------------------
(* The nondeterministic choices and the specifications *)

\* The id a range over the players left after removing playerID can yield first
FirstChoices(g, playerID) ==
    IF PlayerSet(g) \ {playerID} = {} THEN {playerID} ELSE PlayerSet(g) \ {playerID}

\* The outcomes of rand.Shuffle and rand.Intn in NewRound: any order of the
\* players and any of them as imposter.  A caller that is not the host
\* returns before StartRound, so one choice is enough for it.
ShuffleOutcomes(g, playerID) ==
    IF IsHost(g, playerID) /\ PlayerSet(g) # {} THEN Perms(PlayerSet(g)) ELSE {<< >>}

ImposterChoices(order) == IF order = << >> THEN {""} ELSE Range(order)

\* The ids in a fixed order, and the orders of S the narrow specifications
\* let rand.Shuffle produce: S in that order and in the reverse order.
IdOrder == <<"p1", "p2", "p3", "p4", "p5", "p6", "p7", "p8", "p9", "q0", "q1">>

Reverse(seq) == [i \in 1..Len(seq) |-> seq[Len(seq) + 1 - i]]

FewShuffleOutcomes(g, playerID) ==
    IF IsHost(g, playerID) /\ PlayerSet(g) # {}
    THEN {Restrict(IdOrder, PlayerSet(g)), Reverse(Restrict(IdOrder, PlayerSet(g)))}
    ELSE {<< >>}

OneShuffleOutcome(g, playerID) ==
    IF IsHost(g, playerID) /\ PlayerSet(g) # {} THEN {Restrict(IdOrder, PlayerSet(g))} ELSE {<< >>}

\* The targets the narrow specifications let a client vote for
FewTargets == {"p1", "p2", "zz"}

\* The calls that can change the state.  A call left out returns an error
\* before it changes anything: AddPlayer, SubmitWord and CastVote in another
\* phase (GameAlreadyStarted, InvalidPhase), StartGame and StartNewRound by a
\* caller that is not the host (NotHost).
Joining == IF game.phase = PhaseLobby THEN PlayerIds ELSE {}

ManyJoining == IF game.phase = PhaseLobby THEN JoinIds ELSE {}

Starting == {p \in AnyIds : IsHost(game, p)}

FirstStarting == IF game.phase = PhaseLobby THEN Starting ELSE {}

Submitting == IF game.phase = PhaseSubmission THEN AnyIds ELSE {}

Voting == IF game.phase = PhaseVoting THEN AnyIds ELSE {}

\* One session from its construction through its first round: each player
\* joins once, rand.Shuffle yields one of two orders, votes go to FewTargets,
\* the map of players is iterated in any order.
Next ==
    \/ \E p \in Joining \ PlayerSet(game) : AddPlayer(p)
    \/ \E p \in FirstStarting, w \in SecretWords : \E order \in FewShuffleOutcomes(game, p) :
         \E imp \in ImposterChoices(order) : StartGame(p, w, order, imp)
    \/ TransitionToSubmission
    \/ \E p \in Submitting, w \in InputWords : SubmitWord(p, w)
    \/ \E v \in Voting, t \in FewTargets : CastVote(v, t)
    \/ \E i \in DOMAIN tasks : CountdownEnter(i)
    \/ \E i \in DOMAIN tasks : CountdownCancelled(i)
    \/ \E i \in DOMAIN tasks : CountdownTick(i)

Spec == Init /\ [][Next]_vars

\* Rounds one after the other, each ended by its countdown: nobody votes.
NextRounds ==
    \/ \E p \in Joining \ PlayerSet(game) : AddPlayer(p)
    \/ /\ Len(game.rounds) < MaxRounds
       /\ \E p \in Starting, w \in SecretWords : \E order \in FewShuffleOutcomes(game, p) :
            \E imp \in ImposterChoices(order) : StartGame(p, w, order, imp)
    \/ /\ Len(game.rounds) < MaxRounds
       /\ \E p \in Starting, w \in SecretWords : \E order \in FewShuffleOutcomes(game, p) :
            \E imp \in ImposterChoices(order) : StartNewRound(p, w, order, imp)
    \/ TransitionToSubmission
    \/ \E p \in Submitting, w \in InputWords : SubmitWord(p, w)
    \/ \E i \in DOMAIN tasks : CountdownEnter(i)
    \/ \E i \in DOMAIN tasks : CountdownTick(i)

SpecRounds == Init /\ [][NextRounds]_vars

\* Players joining and leaving, in the lobby and during the first round up
\* to the last submission; a player that left may join again.
NextLobby ==
    \/ \E p \in Joining \ PlayerSet(game) : AddPlayer(p)
    \/ /\ removals.host + removals.other < MaxRemovals
       /\ \E p \in PlayerSet(game) : \E first \in FirstChoices(game, p) : RemovePlayer(p, first)
    \/ \E p \in FirstStarting, w \in SecretWords : \E order \in FewShuffleOutcomes(game, p) :
         \E imp \in ImposterChoices(order) : StartGame(p, w, order, imp)
    \/ TransitionToSubmission
    \/ \E p \in Submitting, w \in InputWords : SubmitWord(p, w)

SpecLobby == Init /\ [][NextLobby]_vars

\* The event queue filling up: clients join again and again under the ids
\* they already have while the delivery goroutine is slow.
NextQueue ==
    \/ \E p \in Joining : AddPlayer(p)
    \/ EventLoop
    \/ \E p \in FirstStarting, w \in SecretWords : \E order \in OneShuffleOutcome(game, p) :
         \E imp \in ImposterChoices(order) : StartGame(p, w, order, imp)
    \/ TransitionToSubmission
    \/ \E p \in Submitting, w \in InputWords : SubmitWord(p, w)

SpecQueue == Init /\ [][NextQueue]_vars

\* A lobby that fills up: one client more than the game takes joins, in any
\* order, and the host starts the game at any moment; rand.Shuffle leaves
\* the players in the order of their ids and rand.Intn picks the first.
NextJoin ==
    \/ \E p \in ManyJoining \ PlayerSet(game) : AddPlayer(p)
    \/ \E p \in FirstStarting, w \in SecretWords : \E order \in OneShuffleOutcome(game, p) :
         StartGame(p, w, order, Head(order))
    \/ TransitionToSubmission

SpecJoin == Init /\ [][NextJoin]_vars

\* The ids that open connections in SpecClose: a player and a client that
\* never joins
ClientIds == {"p1", "zz"}

\* Players join in the order of their ids
JoiningInOrder ==
    IF game.phase = PhaseLobby /\ PlayerIds \ PlayerSet(game) # {}
    THEN {Head(Restrict(IdOrder, PlayerIds \ PlayerSet(game)))}
    ELSE {}

\* The one player the voter votes for
OneTarget(v) == IF v = "p1" THEN "p2" ELSE "p1"

\* A panic ends the process
Alive == closing.panics = {}

\* A session that is closed, by two callers of Close at any moments, while
\* clients connect and a round goes on: players join in the order of their
\* ids, every vote comes before the first tick of the countdown.
NextClose ==
    \/ Alive /\ \E p \in JoiningInOrder : AddPlayer(p)
    \/ Alive /\ \E p \in FirstStarting, w \in SecretWords :
                  \E order \in OneShuffleOutcome(game, p) : StartGame(p, w, order, Head(order))
    \/ Alive /\ TransitionToSubmission
    \/ Alive /\ \E p \in Submitting, w \in InputWords : SubmitWord(p, w)
    \/ Alive /\ \E v \in Voting : CastVote(v, OneTarget(v))
    \/ Alive /\ \E i \in DOMAIN tasks : CountdownEnter(i)
    \/ Alive /\ \E i \in DOMAIN tasks : CountdownCancelled(i)
    \/ Alive /\ \E i \in DOMAIN tasks : CountdownStopped(i)
    \/ Alive /\ Len(clients.handles) < MaxClients /\ \E p \in ClientIds : RegisterClient(p)
    \/ Alive /\ \E p \in DOMAIN clients.registry : UnregisterClient(p)
    \/ Alive /\ \E c \in Closers : CloseSelect(c)
    \/ Alive /\ \E c \in Closers : CloseDone(c)
    \/ Alive /\ \E c \in Closers : CloseTest(c)
    \/ Alive /\ \E c \in Closers : CloseCountdown(c)
    \/ Alive /\ \E c \in Closers : CloseClients(c)

SpecClose == Init /\ [][NextClose]_vars

\* Delivery keeps up: the calls that queue events come while fewer than
\* MaxWaiting events wait
FewWaiting == queued < MaxWaiting

\* One round with the contents of the event queue: players join in the
\* order of their ids, rand.Shuffle leaves them in that order, any of them
\* is the imposter, each voter votes for one player, and eventLoop delivers
\* at any moment.
NextEvents ==
    \/ FewWaiting /\ \E p \in JoiningInOrder : AddPlayer(p)
    \/ FewWaiting /\ \E p \in FirstStarting, w \in SecretWords :
                       \E order \in OneShuffleOutcome(game, p) :
                         \E imp \in ImposterChoices(order) : StartGame(p, w, order, imp)
    \/ FewWaiting /\ TransitionToSubmission
    \/ FewWaiting /\ \E p \in Submitting, w \in InputWords : SubmitWord(p, w)
    \/ FewWaiting /\ \E v \in Voting : CastVote(v, OneTarget(v))
    \/ \E i \in DOMAIN tasks : CountdownEnter(i)
    \/ \E i \in DOMAIN tasks : CountdownCancelled(i)
    \/ FewWaiting /\ \E i \in DOMAIN tasks : CountdownTick(i)
    \/ EventLoop

SpecEvents == InitTraced /\ [][NextEvents]_vars

\* The event queue filling up, with its contents: two clients join, again
\* and again under the ids they have, while eventLoop is slow.
OverflowIds == {"p1", "p2"}

NextOverflow ==
    \/ \E p \in OverflowIds : AddPlayer(p)
    \/ EventLoop

SpecOverflow == InitTraced /\ [][NextOverflow]_vars

\* Connections that drop and come back, from the lobby to the last
\* submission: players join in the order of their ids, rand.Shuffle leaves
\* them in that order and rand.Intn picks the first.
ConnectIds == {"p1", "p2", "zz"}

NextConnect ==
    \/ \E p \in JoiningInOrder : AddPlayer(p)
    \/ \E p \in FirstStarting, w \in SecretWords : \E order \in OneShuffleOutcome(game, p) :
         StartGame(p, w, order, Head(order))
    \/ TransitionToSubmission
    \/ \E p \in Submitting, w \in InputWords : SubmitWord(p, w)
    \/ \E p \in ConnectIds : DisconnectPlayer(p)
    \/ \E p \in ConnectIds : ReconnectPlayer(p)

SpecConnect == Init /\ [][NextConnect]_vars

\* The outcomes of the calls of generateRoomCode in one CreateGame
Generated == [1..MaxAttempts -> RoomCodes]

\* A hub whose games are created and deleted
NextHub ==
    \/ hub.created < MaxSessions /\ \E gen \in Generated : CreateGame(gen)
    \/ \E c \in RoomCodes : DeleteSession(c)

SpecHub == Init /\ [][NextHub]_vars

\* A round during which players leave: players join in the order of their
\* ids, rand.Shuffle leaves them in that order and rand.Intn picks the
\* first, each voter votes for one player, and RemovePlayer comes at any
\* moment.
NextLeave ==
    \/ \E p \in JoiningInOrder : AddPlayer(p)
    \/ /\ removals.host + removals.other < MaxRemovals
       /\ \E p \in PlayerSet(game) : \E first \in FirstChoices(game, p) : RemovePlayer(p, first)
    \/ \E p \in FirstStarting, w \in SecretWords : \E order \in OneShuffleOutcome(game, p) :
         StartGame(p, w, order, Head(order))
    \/ TransitionToSubmission
    \/ \E p \in Submitting, w \in InputWords : SubmitWord(p, w)
    \/ \E v \in Voting : CastVote(v, OneTarget(v))

SpecLeave == Init /\ [][NextLeave]_vars

\* Rounds one after the other with votes and countdowns: players join in
\* the order of their ids, rand.Shuffle leaves them in that order and
\* rand.Intn picks the first, each voter votes for one player.
NextStale ==
    \/ \E p \in JoiningInOrder : AddPlayer(p)
    \/ /\ Len(game.rounds) < MaxRounds
       /\ \E p \in FirstStarting, w \in SecretWords : \E order \in OneShuffleOutcome(game, p) :
            StartGame(p, w, order, Head(order))
    \/ /\ Len(game.rounds) < MaxRounds
       /\ \E p \in Starting, w \in SecretWords : \E order \in OneShuffleOutcome(game, p) :
            StartNewRound(p, w, order, Head(order))
    \/ TransitionToSubmission
    \/ \E p \in Submitting, w \in InputWords : SubmitWord(p, w)
    \/ \E v \in Voting : CastVote(v, OneTarget(v))
    \/ \E i \in DOMAIN tasks : CountdownEnter(i)
    \/ \E i \in DOMAIN tasks : CountdownCancelled(i)
    \/ \E i \in DOMAIN tasks : CountdownTick(i)

SpecStale == Init /\ [][NextStale]_vars

\* A round played to its results with votes that can tie, and calls of
\* GetGameState in every phase
NextSnapshot ==
    \/ \E p \in JoiningInOrder : AddPlayer(p)
    \/ \E p \in FirstStarting, w \in SecretWords : \E order \in OneShuffleOutcome(game, p) :
         StartGame(p, w, order, Head(order))
    \/ TransitionToSubmission
    \/ \E p \in Submitting, w \in InputWords : SubmitWord(p, w)
    \/ \E v \in Voting, t \in PlayerSet(game) : CastVote(v, t)
    \/ \E p \in PlayerSet(game) : GetGameStateCall(p)

SpecSnapshot == Init /\ [][NextSnapshot]_vars

\* Two rounds with any number of events waiting: players join in the order
\* of their ids and the first joins again and again, the votes end the
\* first round; the goroutine StartGame and StartNewRound leave sleeping is
\* scheduled when its delay has passed and gets the lock in the end
RevealJoining == JoiningInOrder \cup (Joining \cap PlayerSet(game) \cap {"p1"})

NextReveal ==
    \/ \E p \in RevealJoining : AddPlayer(p)
    \/ EventLoop
    \/ \E p \in FirstStarting, w \in SecretWords : \E order \in OneShuffleOutcome(game, p) :
         StartGame(p, w, order, Head(order))
    \/ /\ Len(game.rounds) < MaxRounds
       /\ \E p \in Starting, w \in SecretWords : \E order \in OneShuffleOutcome(game, p) :
            StartNewRound(p, w, order, Head(order))
    \/ TransitionToSubmission
    \/ \E p \in Submitting, w \in InputWords : SubmitWord(p, w)
    \/ \E v \in Voting : CastVote(v, OneTarget(v))

SpecReveal == Init /\ [][NextReveal]_vars /\ WF_vars(TransitionToSubmission)

\* One round of a session nobody closes, with any number of events
\* waiting and any number of votes, cast in the order of the voters' ids:
\* the countdown goroutine is scheduled, and its ticker fires every second
VotingInOrder ==
    LET waiting == {p \in PlayerSet(game) : ~game.players[p].hasVoted}
    IN  IF game.phase = PhaseVoting /\ waiting # {}
        THEN {Head(Restrict(IdOrder, waiting))} ELSE {}

NextCountdown ==
    \/ \E p \in RevealJoining : AddPlayer(p)
    \/ EventLoop
    \/ \E p \in FirstStarting, w \in SecretWords : \E order \in OneShuffleOutcome(game, p) :
         StartGame(p, w, order, Head(order))
    \/ TransitionToSubmission
    \/ \E p \in Submitting, w \in InputWords : SubmitWord(p, w)
    \/ \E v \in VotingInOrder : CastVote(v, OneTarget(v))
    \/ \E i \in DOMAIN tasks : CountdownEnter(i)
    \/ \E i \in DOMAIN tasks : CountdownCancelled(i)
    \/ \E i \in DOMAIN tasks : CountdownTick(i)

SpecCountdown ==
    /\ Init
    /\ [][NextCountdown]_vars
    /\ \A i \in 1..MaxRounds :
          /\ WF_vars(i \in DOMAIN tasks /\ CountdownEnter(i))
          /\ WF_vars(i \in DOMAIN tasks /\ CountdownTick(i))

\* One round in which any client, a player or not, votes for any id in
\* every phase
NextVotes ==
    \/ \E p \in JoiningInOrder : AddPlayer(p)
    \/ \E p \in FirstStarting, w \in SecretWords : \E order \in OneShuffleOutcome(game, p) :
         StartGame(p, w, order, Head(order))
    \/ TransitionToSubmission
    \/ \E p \in Submitting, w \in InputWords : SubmitWord(p, w)
    \/ \E v \in AnyIds, t \in AnyIds : CastVote(v, t)

SpecVotes == Init /\ [][NextVotes]_vars

\* The lobby and the start of a game with the contents of the event queue
\* and of the clients' send buffers: clients connect and disconnect at any
\* moment, eventLoop delivers at any moment
NextDeliver ==
    \/ FewWaiting /\ \E p \in JoiningInOrder : AddPlayer(p)
    \/ FewWaiting /\ \E p \in FirstStarting, w \in SecretWords :
                       \E order \in OneShuffleOutcome(game, p) :
                         StartGame(p, w, order, Head(order))
    \/ Len(clients.handles) < MaxClients /\ \E p \in ClientIds : RegisterClient(p)
    \/ \E p \in DOMAIN clients.registry : UnregisterClient(p)
    \/ EventLoop
    \/ \E h \in DOMAIN clients.handles : WritePump(h)

SpecDeliver == InitTraced /\ [][NextDeliver]_vars

\* generateRoomCode yielding the same code at every attempt of a CreateGame
SameCode == {[i \in 1..MaxAttempts |-> c] : c \in RoomCodes}

\* h.mu is free
HubFree == hub.busy = ""

\* The first session exists and the process has not panicked
FirstSession == hub.created > 0 /\ Alive

\* The call of Close the hub makes on the first session
HubClosing == hub.busy # "" /\ Alive

\* A hub with two sessions that deletes and sweeps them while a round goes
\* on in the first one: players join in the order of their ids, every vote
\* comes before the first tick of the countdown.
NextDelete ==
    \/ HubFree /\ hub.created < MaxCreated /\ \E gen \in SameCode : CreateGame(gen)
    \/ HubFree /\ \E c \in RoomCodes :
           (c \in DOMAIN hub.sessions => hub.sessions[c] # 1) /\ DeleteSession(c)
    \/ \E c \in RoomCodes : DeleteSessionEnter(c)
    \/ CleanupStaleGames
    \/ DeleteSessionReturn
    \/ \E id \in 1..MaxCreated : GrowOld(id)
    \/ HubClosing /\ CloseSelect("c1")
    \/ HubClosing /\ CloseDone("c1")
    \/ HubClosing /\ CloseTest("c1")
    \/ HubClosing /\ CloseCountdown("c1")
    \/ HubClosing /\ CloseClients("c1")
    \/ FirstSession /\ \E p \in JoiningInOrder : AddPlayer(p)
    \/ FirstSession /\ \E p \in FirstStarting, w \in SecretWords :
                         \E order \in OneShuffleOutcome(game, p) :
                           StartGame(p, w, order, Head(order))
    \/ FirstSession /\ TransitionToSubmission
    \/ FirstSession /\ \E p \in Submitting, w \in InputWords : SubmitWord(p, w)
    \/ FirstSession /\ \E v \in VotingInOrder : CastVote(v, OneTarget(v))
    \/ FirstSession /\ \E i \in DOMAIN tasks : CountdownEnter(i)
    \/ FirstSession /\ \E i \in DOMAIN tasks : CountdownCancelled(i)
    \/ FirstSession /\ \E i \in DOMAIN tasks : CountdownStopped(i)
    \/ FirstSession /\ Len(clients.handles) < MaxClients /\ \E p \in ClientIds : RegisterClient(p)

SpecDelete == Init /\ [][NextDelete]_vars

\* Calls of the hub, of a connection and of the timers of one session
\* with one client, at any moments, while eventLoop delivers
NextLocks ==
    \/ FewWaiting /\ \E t \in Threads : \E call \in CallsOf(t) : StartCall(t, call)
    \/ \E t \in Threads : Step(t)

SpecLocks == Init /\ [][NextLocks]_vars

\* The goroutines of one session
SessionThreads == Threads \ {"hub"}

\* Those of them that call the methods of the session
Callers == SessionThreads \ {"eventLoop"}

\* Calls of a connection and of the timers of one session while eventLoop
\* delivers or stops at any operation for good: a goroutine that can go on
\* does so, and a Lock that can go through again and again does so in the
\* end (sync.Mutex hands the mutex to a Lock that has waited for 1ms);
\* nothing is required of eventLoop
NextStall ==
    \/ \E t \in SessionThreads : \E call \in CallsOf(t) : StartCall(t, call)
    \/ \E t \in SessionThreads : Step(t)

SpecStall == Init /\ [][NextStall]_vars /\ \A t \in Callers : SF_vars(Step(t))

----------------------------------------------------------------------------
(* Properties *)

\* C8: in every reachable state hostId is empty, exactly when there are no
\* players, or it is a key of players.
HostIdValid ==
    /\ game.hostId = "" <=> PlayerSet(game) = {}
    /\ game.hostId # "" => game.hostId \in PlayerSet(game)

\* The outcome of RemovePlayer(p) does not depend on the map order when p
\* is absent: every order gives PlayerNotFound and the same game.
AbsentRemovalRejected ==
    \A p \in AnyIds \ PlayerSet(game) : \A first \in FirstChoices(game, p) :
        GameRemovePlayer(game, p, first) = [err |-> ErrPlayerNotFound, game |-> game]

\* A step that removes player p: the host moves to a remaining player if p
\* was the host and somebody remains, and stays if p was not the host.
RemovalStep(p) ==
    PlayerSet(game') = PlayerSet(game) \ {p} =>
        IF game.hostId = p
        THEN PlayerSet(game') # {} =>
                game'.hostId \in PlayerSet(game') /\ game'.hostId # p
        ELSE game'.hostId = game.hostId

\* C9: RemovePlayer of the host with a player remaining makes a remaining
\* player, not the removed one, the host; RemovePlayer of another player
\* leaves hostId as it is; RemovePlayer of an absent id returns
\* PlayerNotFound and changes nothing.
RemovePlayerHost ==
    /\ []AbsentRemovalRejected
    /\ [][\A p \in PlayerSet(game) : RemovalStep(p)]_vars

\* C9 happens: the host left while others stayed, a non-host left too
HostWasRemoved ==
    /\ removals.host > 0
    /\ removals.other > 0
    /\ game.hostId \in PlayerSet(game)

\* C10: a successful AddPlayer on a game without players makes the added
\* player the host, also when earlier players joined and left.
FirstPlayerIsHost ==
    [][(PlayerSet(game) = {} /\ PlayerSet(game') # {}) =>
           game'.hostId \in PlayerSet(game')]_vars

\* What SubmitWord(p, w) returns to a caller whose turn it is not
NotTurnError(p, w) ==
    IF TrimSpace(w) = << >> THEN ErrEmptyWord
    ELSE IF p \notin PlayerSet(game) THEN ErrPlayerNotFound
    ELSE IF game.players[p].hasSubmitted THEN ErrAlreadySubmitted
    ELSE ErrNotYourTurn

OneImposter ==
    game.phase = PhaseRoleAssignment =>
        LET r == CurrentRound(game)
            imposters == {p \in PlayerSet(game) : game.players[p].role = RoleImposter}
        IN  /\ Cardinality(imposters) = 1
            /\ imposters = {r.imposterId}
            /\ \A p \in PlayerSet(game) \ imposters : game.players[p].role = RoleVilek

\* C1 happens: StartRound succeeded from RESULTS and chose another imposter
\* than it had chosen from LOBBY
SecondRoundStarted ==
    /\ game.phase = PhaseRoleAssignment
    /\ Len(game.rounds) = 2
    /\ game.roundHistory = <<1>>
    /\ game.rounds[1].imposterId # game.rounds[2].imposterId

\* The changes of phase the table allows, as the claim lists them
ListedTransitions ==
    {<<PhaseLobby, PhaseRoleAssignment>>, <<PhaseRoleAssignment, PhaseSubmission>>,
     <<PhaseSubmission, PhaseVoting>>, <<PhaseVoting, PhaseResults>>,
     <<PhaseResults, PhaseRoleAssignment>>}

\* TransitionToSubmission and TransitionToVoting fail with InvalidTransition
\* and change nothing in every phase but the one they leave
TransitionsGuarded ==
    /\ game.phase # PhaseRoleAssignment =>
           GameTransitionToSubmission(game) = [err |-> ErrInvalidTransition, game |-> game]
    /\ game.phase # PhaseSubmission =>
           GameTransitionToVoting(game) = [err |-> ErrInvalidTransition, game |-> game]

\* C7: every change of Game.phase is LOBBY to ROLE_ASSIGNMENT,
\* ROLE_ASSIGNMENT to SUBMISSION, SUBMISSION to VOTING, VOTING to RESULTS or
\* RESULTS to ROLE_ASSIGNMENT, and TransitionToSubmission and
\* TransitionToVoting called in another phase fail with InvalidTransition
\* and leave the phase as it is.
PhaseChangesListed ==
    /\ []TransitionsGuarded
    /\ [][game'.phase # game.phase =>
             <<game.phase, game'.phase>> \in ListedTransitions]_vars

\* C7 happens: two rounds went through every phase
TwoRoundsEnded ==
    /\ game.phase = PhaseResults
    /\ game.roundHistory = <<1, 2>>
    /\ \A n \in DOMAIN stats : stats[n].toSubmission = 1 /\ stats[n].toVoting = 1

\* How often round n is in roundHistory
TimesInHistory(n) == Cardinality({i \in DOMAIN game.roundHistory : game.roundHistory[i] = n})

\* C2: whatever the interleaving of the last CastVote and the expiry of the
\* countdown, a round is ended once: one VOTING to RESULTS transition, one
\* entry in roundHistory, at most one RoundEnded event queued; and it is
\* ended as soon as all players have voted.
RoundEndedOnce ==
    \A n \in DOMAIN stats :
        /\ stats[n].ended <= 1
        /\ stats[n].roundEndedCalls = stats[n].ended
        /\ stats[n].roundEndedQueued <= stats[n].ended
        /\ TimesInHistory(n) = stats[n].ended
        /\ (stats[n].ended = 1) <=> (n = game.currentRound /\ game.phase = PhaseResults)
        /\ (n = game.currentRound /\ stats[n].toVoting = 1
              /\ RoundAllVoted(game.rounds[n], NumPlayers(game))) => stats[n].ended = 1

\* C2 happens: the last vote ended the round and the countdown expired after it
VotedThenExpired ==
    /\ game.phase = PhaseResults
    /\ GetVotedCount(CurrentRound(game)) = NumPlayers(game)
    /\ \E i \in DOMAIN tasks : tasks[i].pc = "expired" /\ tasks[i].round = game.currentRound
    /\ stats[game.currentRound].ended = 1

\* The candidates with strictly more votes than every other candidate
StrictMax(r, candidates) ==
    {c \in candidates : \A d \in candidates \ {c} : VoteCount(r, c) > VoteCount(r, d)}

\* C3: the winner EndRound records is Vilek exactly when a candidate has
\* strictly more votes than every other candidate and is the imposter, and
\* Imposter in every other case, a tie at the maximum and no votes included.
WinnerByStrictMax ==
    game.phase = PhaseResults =>
        LET r == CurrentRound(game)
        IN  r.winner = IF r.imposterId \in StrictMax(r, PlayerSet(game))
                       THEN RoleVilek ELSE RoleImposter

\* C4: two executions of EndRound on the same players, imposter and votes
\* yield the same winner, also when votes tie at the maximum.
WinnerDeterministic ==
    game.phase = PhaseVoting =>
        \A i1, i2 \in IterOrders(game) :
            GameEndRound(game, i1).winner = GameEndRound(game, i2).winner

\* The rounds in which every player of the order has submitted
Complete(n) == Len(game.rounds[n].submissions) = Len(game.rounds[n].playerOrder)

\* What C6 says of round n apart from the number of events in the queue
SubmissionsThenVoting(n) ==
    IF Complete(n)
    THEN /\ RoundAllSubmitted(game.rounds[n])
         /\ stats[n].toVoting = 1
         /\ stats[n].votingStartedCalls = 1
         /\ stats[n].countdowns = 1
         /\ Cardinality({i \in DOMAIN tasks : tasks[i].round = n}) = 1
         /\ n = game.currentRound => game.phase \in {PhaseVoting, PhaseResults}
    ELSE /\ ~RoundAllSubmitted(game.rounds[n])
         /\ stats[n].toVoting = 0
         /\ stats[n].votingStartedCalls = 0
         /\ stats[n].votingStartedQueued = 0
         /\ stats[n].countdowns = 0
         /\ (n = game.currentRound /\ stats[n].toSubmission = 1) =>
                game.phase = PhaseSubmission

\* C6 as the claim states it: after len(playerOrder) successful SubmitWord
\* calls AllSubmitted is true, the phase went from SUBMISSION to VOTING once,
\* one voting-started event is in the queue and one countdown was started;
\* before the last submission the phase is still SUBMISSION.
OneVotingStartedQueued ==
    \A n \in DOMAIN stats :
        /\ SubmissionsThenVoting(n)
        /\ Complete(n) => stats[n].votingStartedQueued = 1

\* C6, amended: after len(playerOrder) successful SubmitWord calls
\* AllSubmitted is true, the phase went from SUBMISSION to VOTING once, one
\* voting-started event was handed to queueEvent, which drops it when the
\* queue is full, so that at most one is in the queue, and one countdown was
\* started; before the last submission the phase is still SUBMISSION.
OneVotingStartedCall ==
    \A n \in DOMAIN stats :
        /\ SubmissionsThenVoting(n)
        /\ Complete(n) => stats[n].votingStartedQueued <= 1

\* C6 happens: the last submission arrived and its event found room in the queue
AllSubmittedQueued ==
    \E n \in DOMAIN stats :
        /\ Complete(n)
        /\ Len(game.rounds[n].playerOrder) = MinPlayers
        /\ stats[n].votingStartedQueued = 1
        /\ game.phase = PhaseVoting

\* AddPlayer is refused whenever the game has started or is full, with the
\* game and the queue as they were
AddPlayerRefused ==
    \A p \in JoinIds \cup {"zz"} :
        LET out == AddPlayerOutcome(game, queued, p)
        IN  /\ game.phase # PhaseLobby =>
                   out = [err |-> ErrGameAlreadyStarted, game |-> game, queued |-> queued]
            /\ (game.phase = PhaseLobby /\ NumPlayers(game) >= MaxPlayers) =>
                   out = [err |-> ErrGameFull, game |-> game, queued |-> queued]
            /\ ~CanJoin(game) => out.err # Ok

\* C11: there are never more than maxPlayers players; a player id is added
\* only in LOBBY; AddPlayer outside LOBBY returns GameAlreadyStarted and on
\* a full lobby GameFull, both leaving players and hostId as they were and
\* queuing no event.
LobbyBounded ==
    /\ [](NumPlayers(game) <= MaxPlayers /\ AddPlayerRefused)
    /\ [][PlayerSet(game') \ PlayerSet(game) # {} =>
             game.phase = PhaseLobby /\ game'.phase = PhaseLobby]_vars

\* C11 happens: the lobby is full and one more client asks to join
LobbyFull ==
    /\ game.phase = PhaseLobby
    /\ NumPlayers(game) = MaxPlayers
    /\ \E p \in JoinIds \ PlayerSet(game) :
           AddPlayerOutcome(game, queued, p).err = ErrGameFull

\* In every round each voter has at most one vote and nobody voted for
\* themselves
VotesWellFormed ==
    \A n \in DOMAIN game.rounds :
        \A v, w \in game.rounds[n].votes :
            /\ v.voterId # v.targetId
            /\ v.voterId = w.voterId => v = w

\* The votes a step records are cast by a player for a player
VoteRecorded ==
    \A n \in DOMAIN game.rounds \cap DOMAIN game'.rounds :
        \A v \in game'.rounds[n].votes \ game.rounds[n].votes :
            v.voterId \in PlayerSet(game) /\ v.targetId \in PlayerSet(game)

\* C12: in a round each voterId is in votes at most once, no vote has its
\* voter as target, and the target of every recorded vote was a key of
\* players when the vote was cast.
VotesValid == []VotesWellFormed /\ [][VoteRecorded]_vars

\* C12 happens: all four players have voted, not all for the same player
EveryoneVoted ==
    /\ HasRound(game)
    /\ GetVotedCount(CurrentRound(game)) = NumPlayers(game)
    /\ NumPlayers(game) = MinPlayers
    /\ \E v, w \in CurrentRound(game).votes : v.targetId # w.targetId

\* C13: while there is a current round its playerOrder holds every current
\* player id exactly once and no other id.
PlayerOrderPermutation ==
    HasRound(game) =>
        LET order == CurrentRound(game).playerOrder
        IN  /\ Range(order) = PlayerSet(game)
            /\ Len(order) = NumPlayers(game)

\* The callers that are not the host, and what rand.Shuffle and rand.Intn
\* could yield for the current players
NotHosts == {p \in AnyIds : p # game.hostId}

AnyShuffle ==
    {Restrict(IdOrder, PlayerSet(game)), Reverse(Restrict(IdOrder, PlayerSet(game)))}

\* StartGame and StartNewRound return NotHost to every caller but the host
StartRefused ==
    \A p \in NotHosts, w \in SecretWords, order \in AnyShuffle :
        \A imp \in ImposterChoices(order) :
            /\ StartGameError(game, p, w, order, imp) = ErrNotHost
            /\ StartNewRoundError(game, p, w, order, imp) = ErrNotHost

\* A step that is a call of StartGame or StartNewRound by a caller that is
\* not the host changes nothing
StartByOtherChangesNothing ==
    \A p \in NotHosts, w \in SecretWords, order \in AnyShuffle :
        \A imp \in ImposterChoices(order) :
            (StartGame(p, w, order, imp) \/ StartNewRound(p, w, order, imp))
                => UNCHANGED vars

\* C16: StartGame and StartNewRound by a caller other than hostId return
\* NotHost and leave the phase, the players, currentRound and roundHistory
\* as they were, queue no event and start no role-reveal timer.
OnlyHostStarts == []StartRefused /\ [][StartByOtherChangesNothing]_vars

\* C16 happens: a round has ended, the host can start the next one and a
\* player who is not the host asks for it
OtherAsksNewRound ==
    /\ game.phase = PhaseResults
    /\ NumPlayers(game) >= MinPlayers
    /\ \E p \in PlayerSet(game) \cap NotHosts, order \in AnyShuffle :
           /\ StartNewRoundError(game, p, "neon", order, Head(order)) = ErrNotHost
           /\ StartNewRoundError(game, game.hostId, "neon", order, Head(order)) = Ok

\* Game g with player q as the imposter of the current round in place of
\* the player that is
WithImposter(g, q) ==
    [g EXCEPT !.rounds[g.currentRound].imposterId = q,
              !.players = [x \in PlayerSet(g) |->
                              [g.players[x] EXCEPT !.role = AssignRole(x, q)]]]

\* What GetGameState returns to p does not tell p which of the other
\* players is the imposter: for a requester p that is not the imposter, it
\* returns the same map when any other player than p is the imposter.
OthersRoleHidden(g) ==
    HasRound(g) /\ CurrentRound(g).imposterId \in PlayerSet(g) =>
        \A p \in AnyIds \ {CurrentRound(g).imposterId} :
            \A q \in PlayerSet(g) \ {p, CurrentRound(g).imposterId} :
                \A iter \in SnapshotOrders(g) :
                    GetGameState(g, p, iter).state = GetGameState(WithImposter(g, q), p, iter).state

\* C14 as the claim states it: in every phase, what GetGameState(p)
\* returns to a requester p discloses no other player's role.
SnapshotHidesRoles == OthersRoleHidden(game)

\* C14, amended: in LOBBY, ROLE_ASSIGNMENT, SUBMISSION and VOTING what
\* GetGameState(p) returns discloses no other player's role, and carries
\* p's own role and, for a Vilek, the secret word; in RESULTS it carries
\* the imposter's id for every requester.
SnapshotHidesRolesBeforeResults ==
    /\ game.phase # PhaseResults => OthersRoleHidden(game)
    /\ HasRound(game) =>
           \A p \in PlayerSet(game) : \A iter \in SnapshotOrders(game) :
               LET state == GetGameState(game, p, iter).state
               IN  /\ state.role = game.players[p].role
                   /\ game.players[p].role = RoleVilek =>
                          state.secretWord = CurrentRound(game).secretWord
                   /\ game.phase = PhaseResults =>
                          state.imposterId = CurrentRound(game).imposterId

\* C14 happens: in the voting of the second round a Vilek that is not the
\* host asks for the state, and the imposter is somebody else than before
SnapshotInSecondVoting ==
    /\ game.phase = PhaseVoting
    /\ Len(game.rounds) = 2
    /\ game.rounds[1].imposterId # game.rounds[2].imposterId
    /\ \E p \in PlayerSet(game) \ {game.hostId} :
           GetGameState(game, p, << >>).state.role = RoleVilek

\* C20: however often and from however many callers Close is invoked,
\* s.done is closed at most once, no close of a channel panics, and the
\* session closes every client handle at most once.
CloseIdempotent ==
    /\ closing.done <= 1
    /\ closing.panics = {}
    /\ \A h \in DOMAIN clients.handles : clients.handles[h].closed <= 1

\* The phases in which the imposter must not learn the secret word
SecretPhases == {PhaseRoleAssignment, PhaseSubmission, PhaseVoting}

\* The events a step puts into the queue
Enqueued ==
    IF Len(events'.queue) > Len(events.queue)
    THEN SubSeq(events'.queue, Len(events.queue) + 1, Len(events'.queue))
    ELSE << >>

\* A payload that tells the secret word or who the imposter is: it has one
\* of the fields that hold them, or a player info in it has a role
Tells(payload) ==
    \/ DOMAIN payload \cap {"secretWord", "imposterId", "role", "winner", "votes"} # {}
    \/ "players" \in DOMAIN payload /\ \E info \in payload.players : "role" \in DOMAIN info
    \/ "playerOrder" \in DOMAIN payload /\
           \E i \in DOMAIN payload.playerOrder : "role" \in DOMAIN payload.playerOrder[i]

\* An event queued before the results of the round tells the imposter
\* nothing: addressed to the imposter it is RolesAssigned with the role and
\* an empty secretWord, addressed to another player it is that player's
\* RolesAssigned with the word, and addressed to all it tells neither the
\* word nor the imposter
KeepsSecret(e, imposterID) ==
    IF e.playerId = imposterID
    THEN e.type = EventRolesAssigned /\ e.payload = [role |-> RoleImposter, secretWord |-> ""]
    ELSE IF e.playerId # ""
    THEN e.type = EventRolesAssigned /\ e.payload.role = RoleVilek
    ELSE ~Tells(e.payload)

\* Every event queued in ROLE_ASSIGNMENT, SUBMISSION and VOTING keeps the
\* secret; the event of the round's results is queued once the phase is
\* RESULTS.
QueuedKeepSecret ==
    game'.phase \in SecretPhases \/ game.phase \in SecretPhases =>
        \A i \in DOMAIN Enqueued :
            IF Enqueued[i].type = EventRoundEnded
            THEN game'.phase = PhaseResults /\ i = Len(Enqueued)
            ELSE KeepsSecret(Enqueued[i], game'.rounds[game'.currentRound].imposterId)

\* What GetGameState returns to the imposter has no secretWord
SnapshotKeepsSecret ==
    game.phase \in SecretPhases /\ HasRound(game) =>
        LET imposterID == CurrentRound(game).imposterId
        IN  imposterID \in PlayerSet(game) =>
                LET state == GetGameState(game, imposterID, << >>).state
                IN  "secretWord" \notin DOMAIN state /\ state.role = RoleImposter

\* C15: in ROLE_ASSIGNMENT, SUBMISSION and VOTING the RolesAssigned event
\* for the imposter has an empty secretWord, no event for all clients that
\* is queued in these phases has the secret word or the imposter's id as
\* such, and GetGameState(imposter) has no secretWord.
ImposterLearnsNothing == []SnapshotKeepsSecret /\ [][QueuedKeepSecret]_vars

\* C15 happens: during the submissions broadcastEvent gets the RolesAssigned
\* event of the imposter, who is not the host, while other events wait
ImposterToldRole ==
    /\ game.phase = PhaseSubmission
    /\ events.handed.type = EventRolesAssigned
    /\ events.handed.playerId = CurrentRound(game).imposterId
    /\ events.handed.playerId # game.hostId
    /\ events.handed.payload.secretWord = ""
    /\ Len(events.queue) > 0

\* eventLoop takes the event that waited longest and passes it to
\* broadcastEvent
DeliveryStep ==
    /\ events.queue # << >>
    /\ events'.queue = Tail(events.queue)
    /\ events'.handed = Head(events.queue)

\* Calls of queueEvent put their events behind the waiting ones
EnqueueStep ==
    /\ events'.handed = events.handed
    /\ Len(events'.queue) >= Len(events.queue)
    /\ SubSeq(events'.queue, 1, Len(events.queue)) = events.queue

\* C18: broadcastEvent gets the events in the order in which they were
\* queued, which is the order in which the calls that queued them ran:
\* every step either delivers the first of the waiting events or puts
\* its events behind those that wait.
DeliveredInOrder == [][DeliveryStep \/ EnqueueStep]_vars

\* C18 happens: broadcastEvent got VotingStarted, and the event of a vote
\* waits in front of the event of a tick of the countdown
VoteWaitsBeforeTick ==
    /\ events.handed.type = EventVotingStarted
    /\ Len(events.queue) >= 2
    /\ "votedCount" \in DOMAIN events.queue[1].payload
    /\ "remainingSeconds" \in DOMAIN events.queue[2].payload

\* s.events never holds more events than its capacity
QueueBounded ==
    /\ queued <= QueueCap
    /\ Len(events.queue) = queued

\* A call of AddPlayer that finds the queue full returns what
\* Game.AddPlayer returned and leaves the game as Game.AddPlayer left it
FullQueueCallCompletes ==
    queued = QueueCap =>
        \A p \in OverflowIds :
            LET out == AddPlayerOutcome(game, queued, p)
            IN  /\ out.err = Ok
                /\ out.game = GameAddPlayer(game, p).game
                /\ p \in PlayerSet(out.game)
                /\ out.queued = queued

\* A step of a call that finds the queue full leaves the queue as it is
FullQueueUnchanged ==
    Len(events.queue) = QueueCap /\ queued' >= queued =>
        events'.queue = events.queue /\ queued' = queued

\* C19: the event queue never holds more than 100 events; a call of
\* queueEvent on a full queue drops the new event and leaves the waiting
\* events and their order as they are, and the call that queued the event
\* completes and returns what it returns otherwise.
QueueOverflowDrops ==
    /\ [](QueueBounded /\ FullQueueCallCompletes)
    /\ [][FullQueueUnchanged]_vars

\* C19 happens: the second player joined when the queue was full: the
\* player is in the game and no waiting event has more than one player
JoinedWithoutEvent ==
    /\ Len(events.queue) = QueueCap
    /\ PlayerSet(game) = OverflowIds
    /\ \A i \in DOMAIN events.queue : Cardinality(events.queue[i].payload.players) = 1

\* Game g with the connection status of player p set to status
WithStatus(g, p, status) == [g EXCEPT !.players[p].status = status]

\* DisconnectPlayer(p) and ReconnectPlayer(p) of a player set the status
\* of p and nothing else; of an id that is no player they change nothing,
\* and ReconnectPlayer returns PlayerNotFound
ConnectionFrame ==
    \A p \in AnyIds :
        LET off == DisconnectPlayerOutcome(game, p)
            on == ReconnectPlayerOutcome(game, p)
        IN  IF p \in PlayerSet(game)
            THEN /\ off.game = WithStatus(game, p, StatusDisconnected)
                 /\ on.game = WithStatus(game, p, StatusConnected)
                 /\ on.err = Ok
            ELSE /\ off = [game |-> game, emitted |-> << >>]
                 /\ on = [err |-> ErrPlayerNotFound, game |-> game, emitted |-> << >>]

\* In SUBMISSION, GetGameState(p) after DisconnectPlayer(p) and
\* ReconnectPlayer(p) has the submissions and the currentPlayerId it had
\* before, and p is connected
SnapshotAfterReconnect ==
    game.phase = PhaseSubmission =>
        \A p \in PlayerSet(game) :
            LET back == ReconnectPlayerOutcome(DisconnectPlayerOutcome(game, p).game, p).game
                before == GetGameState(game, p, << >>).state
                after == GetGameState(back, p, << >>).state
            IN  /\ after.submissions = before.submissions
                /\ after.currentPlayerId = before.currentPlayerId
                /\ back.players[p].status = StatusConnected
                /\ back = WithStatus(game, p, StatusConnected)

\* A step that changes the connection status of a player changes nothing
\* else of the game
StatusStep ==
    \A p \in PlayerSet(game) \cap PlayerSet(game') :
        game'.players[p].status # game.players[p].status =>
            game' = WithStatus(game, p, game'.players[p].status)

\* C17: DisconnectPlayer(p) and ReconnectPlayer(p) change the connection
\* status of p and nothing else of the game, so that in SUBMISSION
\* GetGameState(p) after a disconnect and a reconnect has the submissions
\* and the currentPlayerId it had before; ReconnectPlayer of an id that is
\* no player returns PlayerNotFound and changes nothing.
ReconnectKeepsRound ==
    /\ [](ConnectionFrame /\ SnapshotAfterReconnect)
    /\ [][StatusStep]_vars

\* C17 happens: in SUBMISSION, with two submissions made, everybody is
\* connected and two more events were queued than the joins, the roles
\* and the submissions account for: a player was away and came back
CameBackInSubmission ==
    /\ game.phase = PhaseSubmission
    /\ Len(CurrentRound(game).submissions) = 2
    /\ \A p \in PlayerSet(game) : game.players[p].status = StatusConnected
    /\ queued = 2 * NumPlayers(game) + 1 + Len(CurrentRound(game).submissions) + 2

\* CreateGame registers the new session under a code that was free, and
\* leaves the hub as it is and returns an error when every generated code
\* is taken
CreateGameFresh ==
    \A gen \in Generated :
        LET out == CreateGameOutcome(hub, gen)
        IN  /\ out.err = Ok =>
                   \E c \in RoomCodes \ DOMAIN hub.sessions :
                       /\ DOMAIN out.hub.sessions = DOMAIN hub.sessions \cup {c}
                       /\ out.hub.sessions[c] = hub.created + 1
                       /\ \A d \in DOMAIN hub.sessions : out.hub.sessions[d] = hub.sessions[d]
            /\ out.err # Ok => out.hub = hub
            /\ out.err # Ok <=> \A i \in 1..MaxAttempts : gen[i] \in DOMAIN hub.sessions

\* No step puts another session under a code that has one
NoSessionReplaced ==
    \A c \in DOMAIN hub.sessions \cap DOMAIN hub'.sessions : hub'.sessions[c] = hub.sessions[c]

\* C21: CreateGame registers the new session under a room code that was
\* no key of the registry, so that no session is replaced; when all 10
\* generated codes are taken it returns an error and leaves the registry
\* as it is.
CreateGameKeepsSessions == []CreateGameFresh /\ [][NoSessionReplaced]_vars

\* C21 happens: a session was deleted and two codes are taken, by the
\* first session and by one made after the deletion, so that CreateGame
\* has met taken codes and can draw ten of them
CodesTaken ==
    /\ hub.closed # {}
    /\ Cardinality(DOMAIN hub.sessions) = 2
    /\ \E c \in DOMAIN hub.sessions : hub.sessions[c] = 1
    /\ \E c \in DOMAIN hub.sessions : hub.sessions[c] = hub.created /\ hub.created > 2

\* C22: in every reachable state CanStart() is true if and only if the
\* phase is LOBBY and there are at least minPlayers players; the lobby
\* state and the state GetGameState returns carry that value.
CanStartIffLobbyEnough ==
    LET expected == game.phase = PhaseLobby /\ NumPlayers(game) >= MinPlayers
    IN  /\ CanStart(game) <=> expected
        /\ GetLobbyState(game).canStart <=> expected
        /\ \A p \in AnyIds : GetGameState(game, p, << >>).state.canStart <=> expected

\* C22 happens: the lobby has enough players again after the host and
\* another player left
LobbyEnoughAgain ==
    /\ game.phase = PhaseLobby
    /\ CanStart(game)
    /\ removals.host > 0
    /\ removals.other > 0

\* The sum of the VoteCounts of the first n results
RECURSIVE SumOfCounts(_, _)
SumOfCounts(results, n) ==
    IF n = 0 THEN 0 ELSE SumOfCounts(results, n - 1) + results[n].voteCount

\* C23: in every reachable VOTING state EndRound returns one VoteResult
\* for each current player, each VoteCount is the number of recorded votes
\* for that player, and the VoteCounts add up to the number of votes
\* recorded in the round.
ResultsCountEveryVote ==
    game.phase = PhaseVoting =>
        \A iter \in Perms(PlayerSet(game)) :
            LET res == GameEndRound(game, iter)
            IN  /\ res.err = Ok
                /\ Len(res.results) = NumPlayers(game)
                /\ \A p \in PlayerSet(game) :
                       Cardinality({i \in DOMAIN res.results : res.results[i].playerId = p}) = 1
                /\ \A i \in DOMAIN res.results :
                       res.results[i].voteCount =
                           Cardinality({v \in CurrentRound(game).votes :
                                           v.targetId = res.results[i].playerId})
                /\ SumOfCounts(res.results, Len(res.results)) =
                       Cardinality(CurrentRound(game).votes)

\* C24: once the last vote has ended a round, the countdown of that round
\* queues no further countdown event and returns without waiting for its
\* remaining seconds: no step of it is a tick.
CountdownCancelledByLastVote ==
    [][\A i \in DOMAIN tasks :
           game.rounds[tasks[i].round].ended /\ tasks[i].pc \in {"enter", "wait"} =>
               /\ ~(tasks[i].pc = "wait" /\ tasks'[i].pc = "enter")
               /\ tasks'[i].pc # "expired"]_vars

\* The countdown goroutines that have not returned
LiveTasks == {i \in DOMAIN tasks : tasks[i].pc \in {"enter", "wait"}}

\* The expiry of a countdown that ends the voting ends the voting of the
\* round the countdown was started for
ExpiryEndsOwnRound ==
    \A i \in DOMAIN tasks :
        /\ tasks[i].pc = "wait"
        /\ tasks'[i].pc = "expired"
        /\ game.phase = PhaseVoting
        /\ game'.phase = PhaseResults
        => tasks[i].round = game.currentRound

\* C25: a countdown started for a round never ends the voting of a later
\* round, and at most one countdown is live at any time.
CountdownOfItsRound ==
    /\ [](Cardinality(LiveTasks) <= 1)
    /\ [][ExpiryEndsOwnRound]_vars

\* A step of a timer: the role-reveal callback runs, or a countdown reaches
\* zero
TimerStep ==
    \/ reveals' < reveals
    \/ \E i \in DOMAIN tasks :
          /\ i \in DOMAIN tasks'
          /\ tasks[i].pc # "expired"
          /\ tasks'[i].pc = "expired"

\* C26: once Close has closed s.done, a timer step leaves the phase, the
\* current round and the round history of the game as they were
ClosedSessionTimersIdle ==
    [][(closing.done > 0 /\ TimerStep) =>
            /\ game'.phase = game.phase
            /\ game'.currentRound = game.currentRound
            /\ game'.rounds = game.rounds
            /\ game'.roundHistory = game.roundHistory]_vars

\* C27: the cancellation channel of a countdown is closed at most once and
\* a nil channel is never closed, whatever the order of CastVote and Close:
\* no close of s.countdownDone panics.
CountdownChannelClosedOnce == "countdownDone" \notin closing.panics

\* C28: once a round has ended, no step changes its winner or its end; a
\* call of GetGameState leaves the game, the current round and the round
\* history as they were, in every phase.
EndedRoundFrozen ==
    [][\A n \in DOMAIN game.rounds :
           game.rounds[n].ended =>
               /\ n \in DOMAIN game'.rounds
               /\ game'.rounds[n].winner = game.rounds[n].winner
               /\ game'.rounds[n].ended]_vars

\* The callback of a round ran once when the round has left
\* ROLE_ASSIGNMENT, and is the one pending callback while it has not
RevealCounts ==
    /\ \A n \in DOMAIN stats :
          /\ stats[n].submissionPhaseCalls = stats[n].toSubmission
          /\ IF n = game.currentRound /\ game.phase = PhaseRoleAssignment
             THEN stats[n].toSubmission = 0 /\ reveals = 1
             ELSE stats[n].toSubmission = 1
    /\ game.phase # PhaseRoleAssignment => reveals = 0

\* The step of transitionToSubmission that leaves ROLE_ASSIGNMENT
RevealStep == game.phase = PhaseRoleAssignment /\ game'.phase = PhaseSubmission

\* The payload of the submission-phase event of that step: every player of
\* the round's order, in that order, and no submissions
RevealPayloadFull ==
    LET payload == SubmissionPhasePayload(game')
        order == CurrentRound(game').playerOrder
    IN  /\ Range(order) = PlayerSet(game')
        /\ Len(payload.playerOrder) = Len(order)
        /\ \A i \in DOMAIN order : payload.playerOrder[i].id = order[i]
        /\ payload.submissions = << >>
        /\ payload.currentPlayerId = order[1]

\* A callback that finds another phase than ROLE_ASSIGNMENT
LateReveal == reveals' < reveals /\ game.phase # PhaseRoleAssignment

RemainingInRange ==
    \A i \in LiveTasks : tasks[i].remaining \in 1..VotingSeconds

\* A countdown starts, with the phase VOTING, at the configured duration
CountdownStartsFull ==
    Len(tasks') > Len(tasks) =>
        /\ game'.phase = PhaseVoting
        /\ tasks'[Len(tasks')].remaining = VotingSeconds
        /\ tasks'[Len(tasks')].pc = "enter"

\* A tick above zero of countdown i takes one second off and leaves the game
\* as it is
TickTakesOneSecond(i) ==
    tasks[i].pc = "wait" /\ tasks'[i].pc = "enter" =>
        /\ tasks'[i].remaining = tasks[i].remaining - 1
        /\ tasks'[i].remaining > 0
        /\ game' = game

\* The tick of countdown i that reaches zero ends the voting phase
ZeroEndsVoting(i) ==
    tasks[i].pc = "wait" /\ tasks'[i].pc = "expired" =>
        /\ tasks[i].remaining = 1
        /\ game.phase = PhaseVoting =>
               /\ game'.phase = PhaseResults
               /\ CurrentRound(game').ended

\* C30 as the claim states it: in a session that is not closed, VOTING is
\* followed by RESULTS even if nobody votes; the countdown starts at the
\* configured duration, each tick takes one second off, each tick above
\* zero puts a countdown event into the queue, the tick that reaches zero
\* ends the voting phase.
CountdownQueuesEveryTick ==
    /\ []RemainingInRange
    /\ [][CountdownStartsFull]_vars
    /\ [][\A i \in DOMAIN tasks :
             /\ TickTakesOneSecond(i)
             /\ ZeroEndsVoting(i)
             /\ tasks[i].pc = "wait" /\ tasks'[i].pc = "enter" => queued' = queued + 1]_vars
    /\ (game.phase = PhaseVoting ~> game.phase = PhaseResults)

\* C30, amended: in a session that is not closed, VOTING is followed by
\* RESULTS even if nobody votes; the countdown starts at the configured
\* duration, each tick takes one second off, each tick above zero hands a
\* countdown event to queueEvent, which drops it when 100 events are
\* waiting, the tick that reaches zero ends the voting phase.
CountdownEndsVoting ==
    /\ []RemainingInRange
    /\ [][CountdownStartsFull]_vars
    /\ [][\A i \in DOMAIN tasks :
             /\ TickTakesOneSecond(i)
             /\ ZeroEndsVoting(i)
             /\ tasks[i].pc = "wait" /\ tasks'[i].pc = "enter" =>
                    queued' = IF queued < QueueCap THEN queued + 1 ELSE QueueCap]_vars
    /\ (game.phase = PhaseVoting ~> game.phase = PhaseResults)

\* C30 happens: nobody voted, the countdown ran down and ended the round,
\* and its events found the queue full
ExpiredWithoutVotes ==
    /\ game.phase = PhaseResults
    /\ CurrentRound(game).votes = {}
    /\ tasks[1].pc = "expired"
    /\ stats[1].ended = 1
    /\ queued = QueueCap

\* C31: in SUBMISSION the player whose turn it is is a player of the game
\* who has not submitted, and SubmitWord by that player with a word that
\* is not empty succeeds, also after RemovePlayer calls during the round.
CurrentTurnCanSubmit ==
    game.phase = PhaseSubmission =>
        LET p == GetCurrentPlayerID(CurrentRound(game))
        IN  /\ p \in PlayerSet(game)
            /\ ~game.players[p].hasSubmitted
            /\ GameSubmitWord(game, p, <<"a">>).err = Ok

\* The submissions of round r follow its player order, are numbered from 1,
\* and the turn index is their number
SubmissionsFollowOrder(r) ==
    /\ r.currentPlayerIdx = Len(r.submissions)
    /\ r.currentPlayerIdx \in 0..Len(r.playerOrder)
    /\ \A i \in DOMAIN r.submissions :
          /\ r.submissions[i].playerId = r.playerOrder[i]
          /\ r.submissions[i].order = i

\* C32: in every state of a round the i-th submission is by the i-th
\* player of the order and has the number i (counting from 1), the turn
\* index is the number of submissions, between 0 and the length of the
\* order, and it only increases.
SubmissionsInTurnOrder ==
    /\ [](\A n \in DOMAIN game.rounds : SubmissionsFollowOrder(game.rounds[n]))
    /\ [][\A n \in DOMAIN game.rounds :
             /\ n \in DOMAIN game'.rounds
             /\ game'.rounds[n].currentPlayerIdx >= game.rounds[n].currentPlayerIdx
             /\ game'.rounds[n].playerOrder = game.rounds[n].playerOrder]_vars

\* C32 happens: every player of the order has submitted, one of them has
\* been removed since
AllSubmittedOneLeft ==
    /\ HasRound(game)
    /\ Len(CurrentRound(game).submissions) = MinPlayers
    /\ CurrentRound(game).currentPlayerIdx = Len(CurrentRound(game).playerOrder)
    /\ NumPlayers(game) < MinPlayers

\* The errors CastVote returns
VoteErrors ==
    {ErrInvalidPhase, ErrCannotVoteSelf, ErrPlayerNotFound, ErrAlreadyVoted, ErrInvalidTargetID}

\* What Game.CastVote(v, t) returns: InvalidPhase outside VOTING, and in
\* VOTING CannotVoteSelf only for a vote for oneself, PlayerNotFound only
\* for a voter who is no player, AlreadyVoted only for a voter who has
\* voted, InvalidTargetID only for a target who is no player; a rejected
\* call leaves the game as it is
RejectedVoteKeepsGame(v, t) ==
    LET res == GameCastVote(game, v, t)
    IN  /\ res.err \in VoteErrors \cup {Ok}
        /\ res.err # Ok => res.game = game
        /\ game.phase # PhaseVoting => res.err = ErrInvalidPhase
        /\ game.phase = PhaseVoting =>
              /\ res.err # ErrInvalidPhase
              /\ res.err = ErrCannotVoteSelf => v = t
              /\ res.err = ErrPlayerNotFound => v \notin PlayerSet(game)
              /\ res.err = ErrAlreadyVoted =>
                     \E vote \in CurrentRound(game).votes : vote.voterId = v
              /\ res.err = ErrInvalidTargetID => t \notin PlayerSet(game)
              /\ res.err = Ok =>
                     v # t /\ v \in PlayerSet(game) /\ t \in PlayerSet(game)

\* C33: a rejected CastVote leaves the votes, the hasVoted flags and the
\* phase as they are, queues no event and does not cancel the countdown:
\* Game.CastVote returns the game unchanged with its error, and the step
\* of a rejected GameSession.CastVote changes nothing.
RejectedVoteChangesNothing ==
    /\ [](\A v \in AnyIds, t \in AnyIds : RejectedVoteKeepsGame(v, t))
    /\ [][\A v \in AnyIds, t \in AnyIds :
             (GameCastVote(game, v, t).err # Ok /\ CastVote(v, t)) => UNCHANGED vars]_vars

\* C33 happens: in VOTING with two votes cast and the countdown pending,
\* each of the four errors of the phase is returned to some caller
EveryVoteErrorReturned ==
    /\ game.phase = PhaseVoting
    /\ Cardinality(CurrentRound(game).votes) = 2
    /\ countdownDone # 0
    /\ \A e \in VoteErrors \ {ErrInvalidPhase} :
          \E v \in AnyIds, t \in AnyIds : GameCastVote(game, v, t).err = e

\* The flags of the players of g agree with the current round: who has
\* submitted has a submission, who has voted has cast a vote
FlagsAgree(g) ==
    \A p \in PlayerSet(g) :
        /\ g.players[p].hasSubmitted <=>
               \E i \in DOMAIN CurrentRound(g).submissions :
                   CurrentRound(g).submissions[i].playerId = p
        /\ g.players[p].hasVoted <=>
               \E vote \in CurrentRound(g).votes : vote.voterId = p

\* C34: with a current round, hasSubmitted of a player says that the
\* player has an entry in the round's submissions and hasVoted that the
\* player is the voter of a recorded vote; after StartRound all flags are
\* false.
FlagsFollowRound ==
    /\ [](HasRound(game) => FlagsAgree(game))
    /\ [][Len(game'.rounds) > Len(game.rounds) =>
             \A p \in PlayerSet(game') :
                 ~game'.players[p].hasSubmitted /\ ~game'.players[p].hasVoted]_vars

\* C34 happens: in the second round, after a first one in which everyone
\* submitted and voted, two players have submitted and nobody has voted
SecondRoundFlags ==
    /\ game.currentRound = 2
    /\ game.phase = PhaseSubmission
    /\ Cardinality(game.rounds[1].votes) = NumPlayers(game)
    /\ Cardinality({p \in PlayerSet(game) : game.players[p].hasSubmitted}) = 2
    /\ \A p \in PlayerSet(game) : ~game.players[p].hasVoted

\* The rounds of the history are numbered 1, 2, ... in order
HistoryNumbered ==
    \A i \in DOMAIN game.roundHistory :
        /\ game.roundHistory[i] \in DOMAIN game.rounds
        /\ game.rounds[game.roundHistory[i]].number = i

\* C35: there is no current round exactly in LOBBY; in RESULTS the current
\* round is the last of the round history; the history only grows, by one
\* round with each EndRound, and its rounds are numbered 1, 2, ... in
\* order.
HistoryGrowsByOne ==
    /\ [](/\ ~HasRound(game) <=> game.phase = PhaseLobby
          /\ HistoryNumbered
          /\ game.phase = PhaseResults =>
                 /\ game.roundHistory # << >>
                 /\ game.roundHistory[Len(game.roundHistory)] = game.currentRound)
    /\ [][IF game.phase = PhaseVoting /\ game'.phase = PhaseResults
          THEN game'.roundHistory = Append(game.roundHistory, game.currentRound)
          ELSE game'.roundHistory = game.roundHistory]_vars

\* C35 happens: the second round has ended and is the last of the history
HistoryOfTwoRounds ==
    /\ game.phase = PhaseResults
    /\ Len(game.roundHistory) = 2
    /\ game.currentRound = 2
    /\ CurrentRound(game).ended

\* C36: GameSession.StartGame succeeds only when CanStart is true, that
\* is in LOBBY with at least minPlayers players; in every other phase it
\* fails and leaves the game as it is.
StartGameOnlyInLobby ==
    \A p \in AnyIds, w \in SecretWords, order \in AnyShuffle :
        /\ StartGameError(game, p, w, order, Head(order)) = Ok => CanStart(game)
        /\ game.phase # PhaseLobby =>
               GameStartRound(game, w, order, Head(order)).game = game

\* What a delivery does for handle h, event being the first of the queue:
\* one call of Send if h is the registered client of the event's player,
\* or a registered client and the event has no player, and no call
\* otherwise; a client that is open and has room gets the event as the
\* last of its send buffer
DeliveredTo(h, event) ==
    LET p == clients.handles[h].playerId
        registered == p \in DOMAIN clients.registry /\ clients.registry[p] = h
        target == registered /\ event.playerId \in {"", p}
    IN  IF target
        THEN /\ clients'.handles[h].calls = clients.handles[h].calls + 1
             /\ clients.handles[h].closed = 0 =>
                    clients'.handles[h].send = Append(clients.handles[h].send, event)
        ELSE clients'.handles[h] = clients.handles[h]

\* C39: broadcastEvent passes an event that carries a playerId to the
\* registered client of that player only, to nobody if that player has
\* none, and an event without playerId to every client registered at that
\* moment, once each; the registry is left as it is.
DeliveredToTargets ==
    [][DeliveryStep =>
          /\ clients'.registry = clients.registry
          /\ DOMAIN clients'.handles = DOMAIN clients.handles
          /\ \A h \in DOMAIN clients.handles : DeliveredTo(h, Head(events.queue))]_vars

\* C39 happens: the client of p1 and a client that never joined are
\* registered, both have a lobby event in their send buffers, and the role
\* event of p1 has been passed to broadcastEvent and is in the buffer of
\* p1's client only
RoleEventToOneClient ==
    /\ events.handed.type = EventRolesAssigned
    /\ events.handed.playerId = "p1"
    /\ DOMAIN clients.registry = {"p1", "zz"}
    /\ \A p \in {"p1", "zz"} :
          \E i \in DOMAIN clients.handles[clients.registry[p]].send :
              clients.handles[clients.registry[p]].send[i].type = EventPlayerJoined
    /\ \E i \in DOMAIN clients.handles[clients.registry["p1"]].send :
          clients.handles[clients.registry["p1"]].send[i] = events.handed
    /\ \A i \in DOMAIN clients.handles[clients.registry["zz"]].send :
          clients.handles[clients.registry["zz"]].send[i].type # EventRolesAssigned

\* While the hub closes the first session nothing panics
DeletionWithoutPanic == hub.busy # "" => closing.panics = {}

\* The step on which DeleteSession or the sweep has closed the first
\* session and deletes its code: s.done is closed, so that every countdown
\* of the session has its return case ready, the code is no key of the
\* registry any more and GetSession of it returns ErrGameNotFound
DeletionClosesSession ==
    hub.busy # "" /\ hub'.busy = "" =>
        /\ closing.done > 0
        /\ \A i \in DOMAIN tasks : tasks[i].pc = "wait" => ENABLED CountdownStopped(i)
        /\ 1 \in hub'.closed
        /\ GetSession(hub', hub.busy).err = ErrGameNotFound
        /\ \A c \in DOMAIN hub'.sessions : c \in DOMAIN hub.sessions /\ hub'.sessions[c] = hub.sessions[c]

\* The step of that Close under clientsMu: every registered client handle
\* is closed and the registry is empty afterwards
DeletionClosesClients ==
    closing.closers["c1"].pc = "clients" /\ closing'.closers["c1"].pc = "returned" =>
        /\ DOMAIN clients'.registry = {}
        /\ \A p \in DOMAIN clients.registry : clients'.handles[clients.registry[p]].closed > 0

\* DeleteSession of a code that is no key of the registry changes nothing
DeletionOfUnknownCode ==
    \A c \in RoomCodes \ DOMAIN hub.sessions : DeleteSession(c) => UNCHANGED vars

\* The sweep removes, or starts to close, only sessions without players
\* that are older than StaleGameTimeout
SweepTakesStaleOnly ==
    CleanupStaleGames =>
        \A c \in DOMAIN hub.sessions :
            c \notin DOMAIN hub'.sessions \/ hub'.busy = c =>
                GetPlayerCount(hub.sessions[c]) = 0 /\ hub.sessions[c] \in hub.old

\* C40: DeleteSession of a registered code closes that session (s.done
\* closed, the countdown has its return case, every registered client handle
\* closed, the client registry emptied) and removes the code, so that
\* GetSession of it returns ErrGameNotFound; DeleteSession of any other
\* code changes nothing; the sweep removes only sessions that have no
\* players and are older than StaleGameTimeout.
DeleteSessionCloses ==
    /\ []DeletionWithoutPanic
    /\ [][DeletionClosesSession]_vars
    /\ [][DeletionClosesClients]_vars
    /\ [][DeletionOfUnknownCode]_vars
    /\ [][SweepTakesStaleOnly]_vars

\* The parts of C40 that hold
DeleteSessionClosesUnlessPanic ==
    /\ [][DeletionClosesSession]_vars
    /\ [][DeletionClosesClients]_vars
    /\ [][DeletionOfUnknownCode]_vars
    /\ [][SweepTakesStaleOnly]_vars

\* The next operation of goroutine t
NextOp(t) == Head(sync.todo[t])

Busy(t) == sync.todo[t] # << >>

\* The mutexes goroutine t holds
Held(t) == {l \in Locks : sync.writer[l] = t \/ t \in sync.readers[l]}

\* Goroutine t is inside a method of the session that takes s.mu, or at a
\* queueEvent
InSessionCall(t) == Busy(t) /\ (NextOp(t).lock = GameMu \/ GameMu \in Held(t) \/ NextOp(t).op = "queue")

\* Goroutine t is inside Client.Send
InSend(t) == Busy(t) /\ NextOp(t).in = "Send"

\* No goroutine holds s.mu inside Client.Send, and a queueEvent can always
\* be done
SendsOutsideGameLock ==
    \A t \in Threads :
        /\ InSend(t) => GameMu \notin Held(t)
        /\ Busy(t) /\ NextOp(t).op = "queue" => ENABLED Step(t)

\* C37: event delivery blocks no method of the session: s.mu is never held
\* during a client send, queueEvent never waits, and with eventLoop stopped
\* for good at any operation, inside a client send included, every call of
\* a method of the session that has begun returns.
MutationsNeverWaitForDelivery ==
    /\ []SendsOutsideGameLock
    /\ \A t \in Callers : InSessionCall(t) ~> ~InSessionCall(t)

\* C37 happens: eventLoop is inside Client.Send, s.events is full, and a
\* method of the session that holds s.mu is at its queueEvent
FullQueueDuringSend ==
    /\ InSend("eventLoop")
    /\ ClientMu \in Held("eventLoop")
    /\ queued = QueueCap
    /\ Busy("conn") /\ NextOp("conn").op = "queue" /\ sync.writer[GameMu] = "conn"
    /\ Busy("timer") /\ NextOp("timer").lock = GameMu

\* The goroutines that goroutine t waits for: those that hold, or have
\* announced a Lock of, the mutex its next operation takes
Blockers(t) ==
    IF ~Busy(t) THEN {}
    ELSE LET l == NextOp(t).lock
             writers == {sync.writer[l], sync.pending[l]} \ {"", t}
         IN  CASE NextOp(t).op = "Lock" /\ ~CanLock(sync, t, l) -> writers \cup sync.readers[l]
               [] NextOp(t).op = "RLock" /\ ~CanRLock(sync, t, l) -> writers
               [] OTHER -> {}

\* No set of goroutines in which each waits for others of the set only
NoDeadlock ==
    \A D \in SUBSET Threads \ {{}} :
        \E t \in D : Blockers(t) = {} \/ ~(Blockers(t) \subseteq D)

\* The pairs of mutexes of which the second is taken while the first is held
LockOrder ==
    {<<HubMu, GameMu>>, <<HubMu, ClientsMu>>, <<HubMu, ClientMu>>, <<ClientsMu, ClientMu>>}

\* C38: the mutexes are taken in an order without a cycle (h.mu before
\* s.mu, s.clientsMu before c.mu, s.mu and s.clientsMu never one inside the
\* other), and no interleaving of the calls of the hub, of the session, of
\* the timers, of eventLoop and of a connection that goes away reaches a
\* state in which goroutines wait for each other.
LocksInOrder ==
    /\ \A t \in Threads :
          Busy(t) /\ NextOp(t).op \in {"Lock", "RLock"} =>
              \A l \in Held(t) : <<l, NextOp(t).lock>> \in LockOrder
    /\ NoDeadlock

\* C38 happens: the hub, closing a session under h.mu and s.clientsMu,
\* waits for c.mu, which the connection holds inside Send, while eventLoop
\* waits for s.clientsMu and a timer holds s.mu
HubWaitsForClient ==
    /\ Held("hub") = {HubMu, ClientsMu}
    /\ Blockers("hub") = {"conn"}
    /\ Blockers("eventLoop") = {"hub"}
    /\ Held("timer") = {GameMu}

====
